---- MODULE Spec2Model ----
(***************************************************************************)
(* Account state of crypto_dashboard: the balance cache, the order cache,  *)
(* the tracked-asset set with its price watcher, and the asyncio tasks     *)
(* that mutate them.  asyncio is cooperative: the code between two awaits  *)
(* of a coroutine runs without interleaving, so every action below is the  *)
(* code of one coroutine from one suspension point to the next.            *)
(*                                                                         *)
(* Amounts and prices are Decimals in the code.  Quantities are modelled   *)
(* as small naturals (units of the smallest lot), for which                *)
(* Decimal(str(float(x))) returns x; average prices and PnL are exact      *)
(* fractions [n, d].                                                       *)
(***************************************************************************)
EXTENDS Integers, Sequences, FiniteSets, TLC

----------------------------------------------------------------------------
(* Bounds of the model *)

\* largest cumulative filled amount an order update carries
MaxFilled == 2
\* stream deliveries (order updates, balance entries, price tickers) and
\* cancel requests in one behaviour
MaxEvents == 2
\* recomputation tasks that may exist at the same time
MaxRecomputeTasks == 2
\* closed orders in the trade history of an asset, and units of it held
MaxTrades == 3

----------------------------------------------------------------------------
(* The domain *)

quote_currency == "USDT"
Assets == {"BTC", "ETH"}
AllAssets == Assets \cup {quote_currency}

\* f"{asset}/{quote_currency}"; symbol.split('/')[0] is BaseOf
SymbolOf(asset) == <<asset, quote_currency>>
BaseOf(symbol) == symbol[1]

OrderIds == {"o1", "o2"}
\* the market and side of an order are fixed by the exchange for its lifetime
OrderSymbol(id) == IF id = "o1" THEN SymbolOf("BTC") ELSE SymbolOf("ETH")
OrderSide(id) == IF id = "o1" THEN "buy" ELSE "sell"
OrderPrice(id) == IF id = "o1" THEN 200 ELSE 150

\* the unified order statuses the exchange library reports
Statuses == {"open", "closed", "canceled", "expired", "rejected"}

----------------------------------------------------------------------------
(* Exact fractions for Decimal prices; d = 0 is Python's None *)

None == [n |-> 0, d |-> 0]
IsNone(x) == x.d = 0

RECURSIVE GCD(_, _)
GCD(a, b) == IF b = 0 THEN a ELSE GCD(b, a % b)
Abs(x) == IF x < 0 THEN -x ELSE x
Frac(n, d) ==
    LET g == GCD(Abs(n), d)
    IN  [n |-> n \div g, d |-> d \div g]
Dec(i) == [n |-> i, d |-> 1]
FAdd(x, y) == Frac(x.n * y.d + y.n * x.d, x.d * y.d)
FSub(x, y) == Frac(x.n * y.d - y.n * x.d, x.d * y.d)
FMulInt(x, i) == Frac(x.n * i, x.d)
FDivInt(x, i) == Frac(x.n, x.d * i)
FPos(x) == x.d > 0 /\ x.n > 0

----------------------------------------------------------------------------
(* calculate_average_buy_price.  Decimal divisions are modelled exactly.     *)

\* a closed order of the trade history
Trade(side, filled, price, timestamp) ==
    [side |-> side, filled |-> filled, price |-> price, timestamp |-> timestamp]

\* sorted(trade_history, key=get_timestamp): a stable sort, by insertion
InsertByTimestamp(sorted, trade) ==
    LET k == Cardinality({i \in 1..Len(sorted) :
                             sorted[i].timestamp <= trade.timestamp})
    IN  SubSeq(sorted, 1, k) \o <<trade>> \o SubSeq(sorted, k + 1, Len(sorted))

RECURSIVE SortedPrefix(_, _)
SortedPrefix(trade_history, n) ==
    IF n = 0 THEN <<>>
    ELSE InsertByTimestamp(SortedPrefix(trade_history, n - 1), trade_history[n])

SortedTrades(trade_history) == SortedPrefix(trade_history, Len(trade_history))

\* the backward walk from trade i with the given running_amount: the index
\* at which running_amount reaches 0, or 0 if it never does (-1 in the code,
\* whose indices start at 0)
RECURSIVE StartIndex(_, _, _)
StartIndex(sorted_trades, i, running_amount) ==
    IF i = 0 THEN 0
    ELSE LET after == IF sorted_trades[i].side = "sell"
                      THEN running_amount + sorted_trades[i].filled
                      ELSE IF sorted_trades[i].side = "buy"
                      THEN running_amount - sorted_trades[i].filled
                      ELSE running_amount
         IN  IF after = 0 THEN i ELSE StartIndex(sorted_trades, i - 1, after)

\* one trade of the forward replay applied to total_cost,
\* total_amount_bought and realised_pnl
ReplayTrade(acc, trade) ==
    IF trade.side = "buy"
    THEN [acc EXCEPT
             !.total_cost = FAdd(@, Dec(trade.filled * trade.price)),
             !.total_amount_bought = @ + trade.filled]
    ELSE IF trade.side = "sell"
    THEN LET avg_buy_price ==
                 IF acc.total_amount_bought > 0
                 THEN FDivInt(acc.total_cost, acc.total_amount_bought)
                 ELSE Dec(0)
         IN  IF FPos(avg_buy_price)
             THEN [total_cost |->
                       FSub(acc.total_cost, FMulInt(avg_buy_price, trade.filled)),
                   total_amount_bought |->
                       acc.total_amount_bought - trade.filled,
                   realised_pnl |->
                       FAdd(acc.realised_pnl,
                            FMulInt(FSub(Dec(trade.price), avg_buy_price),
                                    trade.filled))]
             ELSE acc
    ELSE acc

\* the forward replay of the trades from index i on
RECURSIVE Replay(_, _, _)
Replay(sorted_trades, i, acc) ==
    IF i > Len(sorted_trades) THEN acc
    ELSE Replay(sorted_trades, i + 1, ReplayTrade(acc, sorted_trades[i]))

CostBasis(avg_buy_price, realised_pnl) ==
    [avg_buy_price |-> avg_buy_price, realised_pnl |-> realised_pnl]

\* calculate_average_buy_price(exchange, asset, current_amount, ...);
\* fetched: fetch_closed_orders returned trade_history (else it raised)
CalculateAverageBuyPrice(asset, current_amount, fetched, trade_history) ==
    IF asset = quote_currency \/ current_amount <= 0
    THEN CostBasis(None, None)
    ELSE IF ~fetched \/ trade_history = <<>>
    THEN CostBasis(None, None)
    ELSE LET sorted_trades == SortedTrades(trade_history)
             start_index ==
                 StartIndex(sorted_trades, Len(sorted_trades), current_amount)
             acc == Replay(sorted_trades, start_index,
                           [total_cost |-> Dec(0), total_amount_bought |-> 0,
                            realised_pnl |-> Dec(0)])
         IN  IF start_index = 0 THEN CostBasis(None, None)
             ELSE IF acc.total_amount_bought > 0
             THEN CostBasis(FDivInt(acc.total_cost, acc.total_amount_bought),
                            acc.realised_pnl)
             ELSE CostBasis(None, acc.realised_pnl)

----------------------------------------------------------------------------
VARIABLES follows, testnet, whitelist,   \* configuration (ExchangeCoordinator)
    \* BalanceManager.balances_cache and OrderManager.orders_cache
    balances_cache, orders_cache,
    \* tasks created for _handle_filled_order, in creation order
    fill_tasks,
    \* ExchangeCoordinator: tracked set, lock, watcher handle
    tracked_assets, lock_held, price_watcher_task,
    \* recomputation tasks, by slot: position and added_assets
    rpc, r_added,
    \* price watcher tasks, by slot: position, symbols, cancel requested
    wpc, wsymbols, wcancel, wtick,
    \* messages handed to broadcast_message by the last step
    emitted,
    \* observation of the run: last step, last order updates, per-order sums
    last, upd, handed, max_seen, loaded_filled, last_status, pre_rec, read_inputs,
    n_events,
    \* "constructed", then "running" once get_initial_data has returned
    phase,
    \* the balance and the order stream loop: in the stream call or asleep
    loops,
    \* on_startup: the state of a second configured exchange account
    peer,
    \* broadcast.clients, the messages sent to the client that connected last,
    \* app['reference_prices'] and app['reference_time']
    clients, sent, reference_prices, reference_time,
    \* the exchange as this run finds it: the closed orders of BTC with the
    \* amount held, and the outcome of the ticker fetches
    cost_basis, fetches,
    \* the keys of orders_cache in the order of the dict (insertion order)
    orders_keys

vars == <<follows, testnet, whitelist, balances_cache, orders_cache, fill_tasks,
          tracked_assets, lock_held, price_watcher_task, rpc, r_added,
          wpc, wsymbols, wcancel, wtick, emitted,
          last, upd, handed, max_seen, loaded_filled, last_status, pre_rec,
          read_inputs, n_events, phase, loops, peer, clients, sent,
          reference_prices, reference_time, cost_basis, fetches, orders_keys>>

cfg_vars == <<follows, testnet, whitelist>>
env_vars == <<cost_basis, fetches>>
app_vars == <<peer, clients, sent, reference_prices, reference_time>>
watcher_vars == <<wpc, wsymbols, wcancel, wtick, price_watcher_task>>
recompute_vars == <<tracked_assets, lock_held, rpc, r_added, read_inputs>>
order_obs_vars ==
    <<upd, handed, max_seen, loaded_filled, last_status, orders_keys>>
count_vars == <<n_events>>

RecomputeSlots == 1..MaxRecomputeTasks
WatcherSlots == 1..2
NoTask == 0

----------------------------------------------------------------------------
(* Function helpers *)

Put(f, k, v) == [x \in DOMAIN f \cup {k} |-> IF x = k THEN v ELSE f[x]]
Drop(f, k) == [x \in DOMAIN f \ {k} |-> f[x]]
Max(a, b) == IF a > b THEN a ELSE b
EmptyMap == [x \in {} |-> 0]

Msg(type, asset) == [type |-> type, asset |-> asset]

\* the loops of EventHandler
StreamLoops == {"balance", "orders"}

----------------------------------------------------------------------------
(* Recomputation task slots: asyncio.create_task(                          *)
(* coordinator.update_tracked_assets_and_restart_watcher())                *)

CanSpawn == \E s \in RecomputeSlots : rpc[s] = "idle"
FreeSlot ==
    CHOOSE s \in RecomputeSlots :
        rpc[s] = "idle" /\ \A t \in RecomputeSlots : t < s => rpc[t] # "idle"
\* rp with n (0 or 1) more tasks created
Spawn(rp, n) == IF n = 0 THEN rp ELSE [rp EXCEPT ![FreeSlot] = "created"]

----------------------------------------------------------------------------
(* BalanceManager *)

DummyBalance ==
    [free |-> 0, locked |-> 0, total_amount |-> 0, price |-> 0,
     avg_buy_price |-> None, realised_pnl |-> None]

\* the record of an asset before a step, for comparison after it
PreOf(bc, asset) ==
    IF asset \in DOMAIN bc THEN [present |-> TRUE, rec |-> bc[asset]]
    ELSE [present |-> FALSE, rec |-> DummyBalance]

\* the record of an asset before add_balance, with the amounts given to it
BalancePre(bc, asset, free, used) ==
    [present |-> asset \in DOMAIN bc, rec |-> PreOf(bc, asset).rec,
     asset |-> asset, free |-> free, used |-> used]

\* _init_dummy_balance
InitDummyBalance(bc, asset) ==
    IF asset \in DOMAIN bc THEN bc ELSE Put(bc, asset, DummyBalance)

\* faulty variant of ZeroBalanceCache: a followed asset is given a fresh
\* placeholder record
ZeroBalanceCacheReset(bc, asset) ==
    IF asset \notin DOMAIN bc THEN bc
    ELSE IF asset \in follows
         THEN Put(bc, asset, DummyBalance)
         ELSE Drop(bc, asset)

\* exchanges_config[name].get('value_decimal_places', 3)
decimal_places == 3

RECURSIVE Pow10(_)
Pow10(k) == IF k = 0 THEN 1 ELSE 10 * Pow10(k - 1)

\* round(x, places) of a Decimal: to the nearest multiple of 10^-places,
\* ties to the even one
RoundTo(x, places) ==
    LET scaled == x.n * Pow10(places)
        q == scaled \div x.d
        r == scaled % x.d
        rounded == IF 2 * r > x.d \/ (2 * r = x.d /\ q % 2 = 1)
                   THEN q + 1 ELSE q
    IN  Frac(rounded, Pow10(places))

\* faulty variant of FormatDecimal: an unknown value is reported as 0
FormatDecimalOrZero(x) ==
    IF IsNone(x) THEN Dec(0) ELSE RoundTo(x, decimal_places)

\* float(round(x, decimal_places)) if x is not None else None; the float of
\* a decimal of decimal_places digits is taken to be that decimal
FormatDecimal(x) ==
    IF IsNone(x) THEN None ELSE RoundTo(x, decimal_places)

\* create_portfolio_update_message
PortfolioUpdateMessage(symbol, balance_data) ==
    [type |-> "portfolio_update", symbol |-> symbol,
     free |-> balance_data.free, locked |-> balance_data.locked,
     avg_buy_price |-> FormatDecimal(balance_data.avg_buy_price),
     realised_pnl |-> FormatDecimal(balance_data.realised_pnl)]

\* faulty variant of ZeroBalanceCache: the record of an asset that is not
\* followed is set to zero and kept
ZeroBalanceCacheKept(bc, asset) ==
    IF asset \notin DOMAIN bc THEN bc
    ELSE [bc EXCEPT ![asset].free = 0, ![asset].locked = 0,
                    ![asset].total_amount = 0]

\* handle_zero_balance: the cache afterwards
ZeroBalanceCache(bc, asset) ==
    IF asset \notin DOMAIN bc THEN bc
    ELSE IF asset \in follows
         THEN [bc EXCEPT ![asset].free = 0, ![asset].locked = 0,
                         ![asset].total_amount = 0]
         ELSE Drop(bc, asset)

\* handle_zero_balance: the messages it broadcasts
ZeroBalanceMessages(bc, asset) ==
    IF asset \notin DOMAIN bc THEN {}
    ELSE IF asset \in follows
         THEN {Msg("portfolio_update", asset)}
         ELSE {Msg("remove_holding", asset)}

\* faulty variant of ZeroBalanceRequests: only the removal of a record
\* requests a recomputation
ZeroBalanceRequestsOnRemoval(bc, asset) ==
    IF asset \notin DOMAIN bc \/ asset \in follows THEN 0 ELSE 1

\* faulty variant of ZeroBalanceRequests: no recomputation is requested
ZeroBalanceRequestsNone(bc, asset) == 0

\* handle_zero_balance: the recomputation tasks it creates
ZeroBalanceRequests(bc, asset) == IF asset \notin DOMAIN bc THEN 0 ELSE 1

\* faulty variant of AddBalanceCache: the free amount is stored as the total
AddBalanceCacheFreeAsTotal(bc, asset, total_amount, free, used) ==
    IF total_amount > 0
    THEN [InitDummyBalance(bc, asset) EXCEPT
              ![asset].free = free, ![asset].locked = used,
              ![asset].total_amount = free]
    ELSE IF asset \in DOMAIN bc
         THEN ZeroBalanceCache(bc, asset)
         ELSE bc

\* faulty variant of AddBalanceCache: a positive balance stores a record
\* without a cost basis
AddBalanceCacheWithoutCostBasis(bc, asset, total_amount, free, used) ==
    IF total_amount > 0
    THEN [InitDummyBalance(bc, asset) EXCEPT
              ![asset].free = free, ![asset].locked = used,
              ![asset].total_amount = total_amount,
              ![asset].avg_buy_price = None, ![asset].realised_pnl = None]
    ELSE IF asset \in DOMAIN bc
         THEN ZeroBalanceCache(bc, asset)
         ELSE bc

\* add_balance: the cache afterwards
AddBalanceCache(bc, asset, total_amount, free, used) ==
    IF total_amount > 0
    THEN [InitDummyBalance(bc, asset) EXCEPT
              ![asset].free = free, ![asset].locked = used,
              ![asset].total_amount = total_amount]
    ELSE IF asset \in DOMAIN bc
         THEN ZeroBalanceCache(bc, asset)
         ELSE bc

AddBalanceMessages(bc, asset, total_amount) ==
    IF total_amount > 0 \/ asset \notin DOMAIN bc THEN {}
    ELSE ZeroBalanceMessages(bc, asset)

\* faulty variant of AddBalanceRequests: every positive balance requests a
\* recomputation
AddBalanceRequestsAlways(bc, asset, total_amount) ==
    IF total_amount > 0 THEN 1
    ELSE IF asset \in DOMAIN bc THEN ZeroBalanceRequests(bc, asset) ELSE 0

\* add_balance: needs_update, or the request of handle_zero_balance
AddBalanceRequests(bc, asset, total_amount) ==
    IF total_amount > 0
    THEN (IF asset \in DOMAIN bc THEN 0 ELSE 1)
    ELSE IF asset \in DOMAIN bc THEN ZeroBalanceRequests(bc, asset) ELSE 0

\* update_price
UpdatePrice(bc, asset, price) ==
    IF asset \in DOMAIN bc /\ price > 0
    THEN [bc EXCEPT ![asset].price = price]
    ELSE bc

\* update_average_price_on_buy: the new avg_buy_price of an existing record
NewAvgPrice(rec, filled_amount, average_price) ==
    IF ~FPos(rec.avg_buy_price) \/ rec.total_amount <= 0
    THEN Dec(average_price)
    ELSE FDivInt(FAdd(FMulInt(rec.avg_buy_price, rec.total_amount),
                      Dec(filled_amount * average_price)),
                 rec.total_amount + filled_amount)

\* faulty variant of BuyApplies: an unknown cost basis is seeded by the fill
BuyAppliesToNull(bc, asset) == asset \in DOMAIN bc

\* update_average_price_on_buy goes on to compute a new average
BuyApplies(bc, asset) ==
    asset \in DOMAIN bc /\ ~IsNone(bc[asset].avg_buy_price)

\* faulty variant of UpdateAveragePriceOnBuy: the new average is computed
\* from the record as the mutation before this one read it, not as it is
UpdateAveragePriceOnBuyStale(bc, asset, filled_amount, average_price) ==
    IF BuyApplies(bc, asset)
    THEN [bc EXCEPT ![asset].avg_buy_price =
              NewAvgPrice(pre_rec.rec, filled_amount, average_price)]
    ELSE bc

\* update_average_price_on_buy: the cache afterwards
UpdateAveragePriceOnBuy(bc, asset, filled_amount, average_price) ==
    IF BuyApplies(bc, asset)
    THEN [bc EXCEPT ![asset].avg_buy_price =
              NewAvgPrice(bc[asset], filled_amount, average_price)]
    ELSE bc

SellApplies(bc, asset) ==
    asset \in DOMAIN bc /\ FPos(bc[asset].avg_buy_price)

\* faulty variant of NewRealisedPnl: the profit replaces the accumulator
NewRealisedPnlOverwritten(rec, filled_amount, average_price) ==
    FMulInt(FSub(Dec(average_price), rec.avg_buy_price), filled_amount)

\* update_realized_pnl_on_sell: the new realised_pnl of an existing record
NewRealisedPnl(rec, filled_amount, average_price) ==
    LET profit == FMulInt(FSub(Dec(average_price), rec.avg_buy_price),
                          filled_amount)
    IN  IF IsNone(rec.realised_pnl) THEN profit
        ELSE FAdd(rec.realised_pnl, profit)

UpdateRealizedPnlOnSell(bc, asset, filled_amount, average_price) ==
    IF SellApplies(bc, asset)
    THEN [bc EXCEPT ![asset].realised_pnl =
              NewRealisedPnl(bc[asset], filled_amount, average_price)]
    ELSE bc


----------------------------------------------------------------------------
(* OrderManager *)

\* an order update as the order stream delivers it; average = 0: not given
OrderMsg(id, filled, status) ==
    [id |-> id, symbol |-> OrderSymbol(id), side |-> OrderSide(id),
     price |-> OrderPrice(id), amount |-> MaxFilled, filled |-> filled,
     average |-> 0, status |-> status]

\* old_order.get('filled', '0') of orders_cache.get(order_id, {})
OldFilled(oc, order_id) ==
    IF order_id \in DOMAIN oc THEN oc[order_id].filled ELSE 0

\* status in ('closed', 'canceled')
RemovesOrder(status) == status \in {"closed", "canceled"}

\* the record update_order stores for a status that keeps the order
CachedOrder(order) ==
    [id |-> order.id, symbol |-> order.symbol, side |-> order.side,
     price |-> order.price, amount |-> order.amount, filled |-> order.filled,
     value |-> order.price * (order.amount - order.filled),
     status |-> order.status]

\* update_order: the order cache afterwards
UpdatedOrders(oc, order) ==
    IF RemovesOrder(order.status)
    THEN (IF order.id \in DOMAIN oc THEN Drop(oc, order.id) ELSE oc)
    ELSE Put(oc, order.id, CachedOrder(order))

\* update_order: the keys of the order cache afterwards, in dict order (a
\* deleted key is taken out, a new key goes to the end, a key that is
\* assigned again keeps its place)
UpdatedKeys(keys, oc, order) ==
    IF RemovesOrder(order.status)
    THEN SelectSeq(keys, LAMBDA id : id # order.id)
    ELSE IF order.id \in DOMAIN oc THEN keys
    ELSE Append(keys, order.id)

\* faulty variant of TradeAmount: the delta is taken against the cache as
\* update_order leaves it, not as it finds it
TradeAmountAfterUpdate(oc, order) ==
    order.filled - OldFilled(UpdatedOrders(oc, order), order.id)

\* trade_amount = new_filled - old_filled
TradeAmount(oc, order) == order.filled - OldFilled(oc, order.id)

\* the task update_order creates for _handle_filled_order(order, trade_amount)
FillTask(order, trade_amount) ==
    [id |-> order.id, side |-> order.side, symbol |-> order.symbol,
     trade_price |-> IF order.average # 0 THEN order.average ELSE order.price,
     trade_amount |-> trade_amount, pc |-> "created"]

\* faulty variant of NewFillTasks: every update that reports a filled
\* amount creates a task for it
NewFillTasksPerMessage(oc, order) ==
    IF order.filled > 0 THEN <<FillTask(order, order.filled)>> ELSE <<>>

\* update_order: the fill tasks it creates (one if trade_amount > 0)
NewFillTasks(oc, order) ==
    IF TradeAmount(oc, order) > 0
    THEN <<FillTask(order, TradeAmount(oc, order))>>
    ELSE <<>>

\* get_order_asset_names
OrderAssetNames(oc) ==
    {BaseOf(oc[id].symbol) : id \in {i \in DOMAIN oc : oc[i].symbol # <<>>}}

\* faulty variant of InitializedOrders: the filled amount of the REST
\* snapshot is not stored
InitializedOrdersUnfilled(open_orders) ==
    [id \in {o.id : o \in {x \in open_orders : x.id # ""}} |->
        [CachedOrder(CHOOSE o \in open_orders : o.id = id) EXCEPT !.filled = 0]]

\* initialize_orders: orders without an id are skipped
InitializedOrders(open_orders) ==
    [id \in {o.id : o \in {x \in open_orders : x.id # ""}} |->
        CachedOrder(CHOOSE o \in open_orders : o.id = id)]

SeqSum(seq) ==
    LET RECURSIVE Go(_)
        Go(i) == IF i = 0 THEN 0 ELSE seq[i].trade_amount + Go(i - 1)
    IN  Go(Len(seq))

\* initialize_orders: the keys of the order cache, in the order of the REST
\* list (the lists of the model have at most one order with an id)
InitializedKeys(open_orders) ==
    LET ids == DOMAIN InitializedOrders(open_orders)
    IN  CHOOSE keys \in [1..Cardinality(ids) -> ids] :
            {keys[k] : k \in DOMAIN keys} = ids

\* update_order(order) on the order stream
UpdateOrder(order) ==
    /\ phase = "running"
    /\ loops["orders"] = "watch"
    /\ n_events < MaxEvents
    /\ n_events' = n_events + 1
    /\ last' = [op |-> "update_order", key |-> order.id]
    /\ IF order.id = ""
       THEN /\ emitted' = {}
            /\ UNCHANGED <<orders_cache, fill_tasks, rpc, order_obs_vars>>
       ELSE /\ CanSpawn
            /\ fill_tasks' = fill_tasks \o NewFillTasks(orders_cache, order)
            /\ orders_cache' = UpdatedOrders(orders_cache, order)
            /\ orders_keys' = UpdatedKeys(orders_keys, orders_cache, order)
            /\ rpc' = Spawn(rpc, 1)
            /\ emitted' = {Msg("orders_update", ""), Msg("log", order.id)}
            /\ upd' = [id |-> order.id, status |-> order.status,
                       filled |-> order.filled,
                       cached |-> IF order.id \in DOMAIN orders_cache
                                  THEN orders_cache[order.id].filled ELSE 0,
                       was_cached |-> order.id \in DOMAIN orders_cache,
                       delta |-> TradeAmount(orders_cache, order),
                       handed |-> SeqSum(NewFillTasks(orders_cache, order))]
            /\ handed' = [handed EXCEPT
                   ![order.id] = @ + SeqSum(NewFillTasks(orders_cache, order))]
            /\ max_seen' = [max_seen EXCEPT ![order.id] = Max(@, order.filled)]
            /\ UNCHANGED loaded_filled
            /\ last_status' = [last_status EXCEPT ![order.id] = order.status]
    /\ UNCHANGED <<cfg_vars, env_vars, app_vars, loops, balances_cache, tracked_assets, lock_held,
                   r_added, read_inputs, watcher_vars, pre_rec, phase>>

\* faulty variant of CancelledOrders: an accepted cancel removes the order
CancelledOrdersRemoved(oc, order_id, accepted) ==
    IF accepted /\ order_id \in DOMAIN oc THEN Drop(oc, order_id) ELSE oc

\* cancel_order: the order cache afterwards (the removal is left to the
\* order stream)
CancelledOrders(oc, order_id, accepted) == oc

\* cancel_order(order_id, symbol); accepted: exchange.cancel_order returned
CancelOrder(order_id, accepted) ==
    /\ phase = "running"
    /\ n_events < MaxEvents
    /\ n_events' = n_events + 1
    /\ orders_cache' = CancelledOrders(orders_cache, order_id, accepted)
    /\ emitted' = {Msg("log_cancelling", order_id)} \cup
                  (IF accepted THEN {}
                   ELSE {Msg("log_cancel_failed", order_id)})
    /\ last' = [op |-> "cancel_order", key |-> order_id]
    /\ UNCHANGED <<cfg_vars, env_vars, app_vars, loops, balances_cache, fill_tasks, recompute_vars,
                   watcher_vars, order_obs_vars, pre_rec, phase>>

\* all_orders = list(self.orders_cache.values()), as their ids
AllOrders(keys, oc) == SelectSeq(keys, LAMBDA id : id \in DOMAIN oc)

\* cancellation_tasks: one task per order with an id and a symbol
CancellationTasks(keys, oc) ==
    SelectSeq(AllOrders(keys, oc), LAMBDA id : oc[id].symbol # <<>>)

\* the loop over zip(all_orders, results): the orders named by the
\* 'Cancel Failed' logs, results[k] being the result of cancellation_tasks[k]
CancelFailedLogged(keys, oc, failed) ==
    {AllOrders(keys, oc)[k] :
        k \in {j \in 1..Len(CancellationTasks(keys, oc)) :
                  CancellationTasks(keys, oc)[j] \in failed}}

\* cancel_all_orders; failed: the cached orders whose cancel request raised
CancelAllOrders(failed) ==
    /\ phase = "running"
    /\ n_events < MaxEvents
    /\ n_events' = n_events + 1
    /\ failed \subseteq
           {id \in DOMAIN orders_cache : orders_cache[id].symbol # <<>>}
    /\ orders_cache' = orders_cache
    /\ emitted' = {Msg("log_info", "")} \cup
                  {Msg("log_cancel_failed", id) :
                      id \in CancelFailedLogged(orders_keys, orders_cache,
                                                failed)}
    /\ last' = [op |-> "cancel_all_orders", key |-> "", failed |-> failed]
    /\ UNCHANGED <<cfg_vars, env_vars, app_vars, loops, balances_cache, fill_tasks, recompute_vars,
                   watcher_vars, order_obs_vars, pre_rec, phase>>

\* _handle_filled_order: side, asset and a positive price are present
FillIsValid(task) ==
    task.side # "" /\ task.symbol # <<>> /\ task.trade_price > 0

\* is_new_holding
IsNewHolding(bc, task) ==
    task.side = "buy" /\ BaseOf(task.symbol) \notin DOMAIN bc

\* the balance update at the end of _handle_filled_order
AppliedFill(bc, task) ==
    IF task.side = "buy"
    THEN UpdateAveragePriceOnBuy(bc, BaseOf(task.symbol), task.trade_amount,
                                 task.trade_price)
    ELSE IF task.side = "sell"
    THEN UpdateRealizedPnlOnSell(bc, BaseOf(task.symbol), task.trade_amount,
                                 task.trade_price)
    ELSE bc

FillMessages(bc, task) ==
    IF \/ task.side = "buy" /\ BuyApplies(bc, BaseOf(task.symbol))
       \/ task.side = "sell" /\ SellApplies(bc, BaseOf(task.symbol))
    THEN {Msg("portfolio_update", BaseOf(task.symbol))}
    ELSE {}

RemoveAt(seq, i) == SubSeq(seq, 1, i - 1) \o SubSeq(seq, i + 1, Len(seq))

\* the record of the asset before a fill is applied, with the fill
FillPre(bc, task) ==
    [present |-> BaseOf(task.symbol) \in DOMAIN bc,
     rec |-> PreOf(bc, BaseOf(task.symbol)).rec,
     asset |-> BaseOf(task.symbol), side |-> task.side,
     trade_amount |-> task.trade_amount, trade_price |-> task.trade_price]

\* faulty variant of FirstCreated: the event loop starts any created task
AnyCreated(i) ==
    /\ i \in 1..Len(fill_tasks)
    /\ fill_tasks[i].pc = "created"

\* the event loop starts tasks in creation order
FirstCreated(i) ==
    /\ i \in 1..Len(fill_tasks)
    /\ fill_tasks[i].pc = "created"
    /\ \A j \in 1..(i - 1) : fill_tasks[j].pc # "created"

\* a fill task runs from its start to its first await, or to its end
StartFill(i) ==
    /\ FirstCreated(i)
    /\ IF ~FillIsValid(fill_tasks[i])
       THEN /\ fill_tasks' = RemoveAt(fill_tasks, i)
            /\ last' = [op |-> "fill_dropped", key |-> fill_tasks[i].id]
            /\ UNCHANGED <<balances_cache, pre_rec>>
            /\ emitted' = {}
       ELSE IF IsNewHolding(balances_cache, fill_tasks[i])
       THEN \* await exchange.fetch_ticker(symbol)
            /\ fill_tasks' = [fill_tasks EXCEPT ![i].pc = "fetch_ticker"]
            /\ last' = [op |-> "fill_fetch_ticker", key |-> fill_tasks[i].id]
            /\ UNCHANGED <<balances_cache, pre_rec>>
            /\ emitted' = {}
       ELSE /\ fill_tasks' = RemoveAt(fill_tasks, i)
            /\ last' = [op |-> "handle_filled_order", key |-> fill_tasks[i].id]
            /\ balances_cache' = AppliedFill(balances_cache, fill_tasks[i])
            /\ pre_rec' = FillPre(balances_cache, fill_tasks[i])
            /\ emitted' = FillMessages(balances_cache, fill_tasks[i])
    /\ UNCHANGED <<cfg_vars, env_vars, app_vars, loops, orders_cache, recompute_vars, watcher_vars,
                   order_obs_vars, count_vars, phase>>

\* a fill task for a new holding resumes after the price fetch
ResumeFill(i) ==
    /\ i \in 1..Len(fill_tasks)
    /\ fill_tasks[i].pc = "fetch_ticker"
    /\ last' = [op |-> "handle_filled_order", key |-> fill_tasks[i].id]
    /\ fill_tasks' = RemoveAt(fill_tasks, i)
    /\ balances_cache' = AppliedFill(balances_cache, fill_tasks[i])
    /\ pre_rec' = FillPre(balances_cache, fill_tasks[i])
    /\ emitted' = {Msg("price_update", BaseOf(fill_tasks[i].symbol))}
                     \cup FillMessages(balances_cache, fill_tasks[i])
    /\ UNCHANGED <<cfg_vars, env_vars, app_vars, loops, orders_cache, recompute_vars, watcher_vars,
                   order_obs_vars, count_vars, phase>>


----------------------------------------------------------------------------
(* ExchangeCoordinator.update_tracked_assets_and_restart_watcher and the   *)
(* price watcher task                                                      *)

\* the last price a ticker of the asset carries
TickerPrice(asset) == IF asset = "BTC" THEN 7 ELSE 9

\* faulty variant of NewTrackedSet: the assets of open orders are left out
NewTrackedSetWithoutOrders(bc, oc) ==
    LET all == follows \cup DOMAIN bc \cup {quote_currency}
    IN  IF testnet THEN all \cap (whitelist \cup {quote_currency}) ELSE all

\* new_tracked_set, computed from the caches
NewTrackedSet(bc, oc) ==
    LET all == follows \cup DOMAIN bc \cup OrderAssetNames(oc)
                   \cup {quote_currency}
    IN  IF testnet THEN all \cap (whitelist \cup {quote_currency}) ELSE all

\* what a recomputation read: the keys and the held assets of the balance
\* cache and the assets of the order cache
InputsOf(bc, oc) ==
    [keys |-> DOMAIN bc,
     held |-> {a \in DOMAIN bc : bc[a].total_amount > 0},
     orders |-> OrderAssetNames(oc)]

\* the record of a computation of the tracked set: what it read, and whether
\* that is what the computation before it read
ReadOf(bc, oc) ==
    [valid |-> TRUE,
     same |-> read_inputs.valid /\ read_inputs.inputs = InputsOf(bc, oc),
     inputs |-> InputsOf(bc, oc)]

\* assets_to_fetch of initialize_prices_for_tracked_assets
AssetsToFetch(added) == added \ {quote_currency}

\* the fallback loop cut short: the first failing fetch_ticker ends it
RECURSIVE IndividualFetchesUntilFailure(_, _, _, _)
IndividualFetchesUntilFailure(order, i, assets, failing) ==
    IF i > Len(order) THEN {}
    ELSE IF order[i] \notin assets
         THEN IndividualFetchesUntilFailure(order, i + 1, assets, failing)
         ELSE IF order[i] \in failing THEN {}
              ELSE {order[i]} \cup
                   IndividualFetchesUntilFailure(order, i + 1, assets, failing)

\* the fallback loop of initialize_prices_for_tracked_assets: fetch_ticker
\* for each asset in turn, each in a try of its own; the assets whose price
\* is stored
RECURSIVE IndividualFetches(_, _, _, _)
IndividualFetches(order, i, assets, failing) ==
    IF i > Len(order) THEN {}
    ELSE (IF order[i] \in assets /\ order[i] \notin failing
          THEN {order[i]} ELSE {})
         \cup IndividualFetches(order, i + 1, assets, failing)

\* faulty variant of BackfillFetched: a failing fetch_ticker ends the
\* fallback
BackfillFetchedUntilFailure(assets, outcome) ==
    IF outcome.batch_ok THEN assets
    ELSE IndividualFetchesUntilFailure(outcome.order, 1, assets,
                                       outcome.failing)

\* initialize_prices_for_tracked_assets: the assets whose price is stored,
\* by fetch_tickers or, when that raises, by the fallback loop
BackfillFetched(assets, outcome) ==
    IF outcome.batch_ok THEN assets
    ELSE IndividualFetches(outcome.order, 1, assets, outcome.failing)

\* PriceManager.get_tracked_symbols (as the set of base assets)
TrackedSymbols(tracked) == tracked \ {quote_currency}

\* faulty variant of LockAvailable: the critical section is entered without
\* the lock
LockIgnored == TRUE

\* asyncio.Lock.acquire returns at once: unlocked and nobody waiting
LockAvailable ==
    ~lock_held /\ \A s \in RecomputeSlots : rpc[s] # "waiting"

\* a woken waiter takes the lock
LockFree == ~lock_held

WatcherLive(w) == w # NoTask /\ wpc[w] # "done"

\* price_watcher_task and not price_watcher_task.done()
MustCancel == WatcherLive(price_watcher_task)

\* faulty variant of OldWatcherStopped: the cancelled task is not awaited
OldWatcherNotAwaited == TRUE

\* the old watcher task is awaited until it is done
OldWatcherStopped == ~WatcherLive(price_watcher_task)

NewWatcherSlot == CHOOSE w \in WatcherSlots : wpc[w] = "done"

\* asyncio.create_task(self.watch_tickers_loop()): scheduled, not yet run
CreateWatcher ==
    /\ \E w \in WatcherSlots : wpc[w] = "done"
    /\ price_watcher_task' = NewWatcherSlot
    /\ wpc' = [wpc EXCEPT ![NewWatcherSlot] = "scheduled"]
    /\ wsymbols' = [wsymbols EXCEPT ![NewWatcherSlot] = {}]
    /\ wcancel' = [wcancel EXCEPT ![NewWatcherSlot] = FALSE]
    /\ UNCHANGED wtick

\* leaving `async with self.watcher_restart_lock`
Finish(s) ==
    /\ lock_held' = FALSE
    /\ rpc' = [rpc EXCEPT ![s] = "idle"]
    /\ r_added' = [r_added EXCEPT ![s] = {}]

\* step 2 of the critical section: restart the ticker watcher
Restart(s, op) ==
    IF MustCancel
    THEN \* price_watcher_task.cancel(); await price_watcher_task
         /\ wcancel' = [wcancel EXCEPT ![price_watcher_task] = TRUE]
         /\ rpc' = [rpc EXCEPT ![s] = "await_cancel"]
         /\ lock_held' = TRUE
         /\ r_added' = [r_added EXCEPT ![s] = {}]
         /\ last' = [op |-> op, key |-> "await_cancel"]
         /\ UNCHANGED <<wpc, wsymbols, wtick, price_watcher_task>>
    ELSE /\ CreateWatcher
         /\ Finish(s)
         /\ last' = [op |-> op, key |-> "finished"]

\* faulty variant of SkipsRestart: the fast path is never taken
NeverSkipsRestart(is_initial, new_tracked_set, old_tracked_set) == FALSE

\* not is_initial and new_tracked_set == old_tracked_set
SkipsRestart(is_initial, new_tracked_set, old_tracked_set) ==
    ~is_initial /\ new_tracked_set = old_tracked_set

\* the critical section from the acquired lock to its first await
Enter(s, bc, oc, is_initial) ==
    /\ read_inputs' = ReadOf(bc, oc)
    /\ IF SkipsRestart(is_initial, NewTrackedSet(bc, oc), tracked_assets)
       THEN /\ Finish(s)
            /\ last' = [op |-> "recompute", key |-> "unchanged"]
            /\ UNCHANGED <<tracked_assets, watcher_vars>>
       ELSE /\ tracked_assets' = NewTrackedSet(bc, oc)
            /\ IF AssetsToFetch(NewTrackedSet(bc, oc) \ tracked_assets) # {}
               THEN \* await price_manager.initialize_prices_for_tracked_assets
                    /\ rpc' = [rpc EXCEPT ![s] = "backfill"]
                    /\ r_added' = [r_added EXCEPT
                           ![s] = NewTrackedSet(bc, oc) \ tracked_assets]
                    /\ lock_held' = TRUE
                    /\ last' = [op |-> "recompute", key |-> "backfill"]
                    /\ UNCHANGED watcher_vars
               ELSE Restart(s, "recompute")

\* a created recomputation task starts: it enters or waits for the lock
RecomputeStart(s) ==
    /\ rpc[s] = "created"
    /\ IF LockAvailable
       THEN /\ Enter(s, balances_cache, orders_cache, FALSE)
            /\ emitted' = {}
       ELSE /\ rpc' = [rpc EXCEPT ![s] = "waiting"]
            /\ last' = [op |-> "recompute_wait", key |-> ""]
            /\ UNCHANGED <<tracked_assets, lock_held, r_added, read_inputs,
                           watcher_vars, emitted>>
    /\ UNCHANGED <<cfg_vars, env_vars, app_vars, loops, balances_cache, orders_cache, fill_tasks,
                   order_obs_vars, pre_rec, count_vars, phase>>

\* a waiting recomputation task is woken by the release of the lock
RecomputeWake(s) ==
    /\ rpc[s] = "waiting"
    /\ LockFree
    /\ Enter(s, balances_cache, orders_cache, FALSE)
    /\ emitted' = {}
    /\ UNCHANGED <<cfg_vars, env_vars, app_vars, loops, balances_cache, orders_cache, fill_tasks,
                   order_obs_vars, pre_rec, count_vars, phase>>

\* _update_asset_price for every fetched ticker of the backfill
BackfilledPrices(bc, assets) ==
    [a \in DOMAIN bc |->
        IF a \in assets THEN [bc[a] EXCEPT !.price = TickerPrice(a)] ELSE bc[a]]

\* the price backfill returns (fetched: the assets whose price was fetched)
RecomputeBackfilled(s, fetched) ==
    /\ rpc[s] = "backfill"
    /\ fetched \subseteq AssetsToFetch(r_added[s])
    /\ balances_cache' = BackfilledPrices(balances_cache, fetched)
    /\ emitted' = {Msg("price_update", a) : a \in fetched}
    /\ Restart(s, "recompute_resume")
    /\ UNCHANGED <<cfg_vars, env_vars, app_vars, loops, orders_cache, fill_tasks, tracked_assets,
                   read_inputs, order_obs_vars, pre_rec, count_vars, phase>>

\* `await self.price_watcher_task` returns or raises CancelledError
RecomputeCancelled(s) ==
    /\ rpc[s] = "await_cancel"
    /\ OldWatcherStopped
    /\ CreateWatcher
    /\ Finish(s)
    /\ last' = [op |-> "recompute_resume", key |-> "restarted"]
    /\ emitted' = {}
    /\ UNCHANGED <<cfg_vars, env_vars, app_vars, loops, balances_cache, orders_cache, fill_tasks,
                   tracked_assets, read_inputs, order_obs_vars, pre_rec,
                   count_vars, phase>>


----------------------------------------------------------------------------
(* The price watcher task: ExchangeCoordinator.watch_tickers_loop and      *)
(* PriceManager.watch_tickers_loop                                         *)

\* the task runs for the first time: it reads the tracked symbols
WatcherStart(w) ==
    /\ wpc[w] = "scheduled"
    /\ ~wcancel[w]
    /\ IF TrackedSymbols(tracked_assets) = {}
       THEN wpc' = [wpc EXCEPT ![w] = "done"]
       ELSE wpc' = [wpc EXCEPT ![w] = "watch_tickers"]
    /\ wsymbols' = [wsymbols EXCEPT ![w] = TrackedSymbols(tracked_assets)]
    /\ last' = [op |-> "watcher_start", key |-> ""]
    /\ emitted' = {}
    /\ UNCHANGED <<cfg_vars, env_vars, app_vars, loops, balances_cache, orders_cache, fill_tasks,
                   recompute_vars, wcancel, wtick, price_watcher_task,
                   order_obs_vars, pre_rec, count_vars, phase>>

\* watch_tickers returns a ticker: _update_asset_price broadcasts it first
WatcherTick(w, asset) ==
    /\ wpc[w] = "watch_tickers"
    /\ ~wcancel[w]
    /\ asset \in wsymbols[w]
    /\ n_events < MaxEvents
    /\ n_events' = n_events + 1
    /\ wpc' = [wpc EXCEPT ![w] = "broadcast"]
    /\ wtick' = [wtick EXCEPT ![w] = asset]
    /\ last' = [op |-> "watcher_tick", key |-> asset]
    /\ emitted' = {Msg("price_update", asset)}
    /\ UNCHANGED <<cfg_vars, env_vars, app_vars, loops, balances_cache, orders_cache, fill_tasks,
                   recompute_vars, wsymbols, wcancel, price_watcher_task,
                   order_obs_vars, pre_rec, phase>>

\* the broadcast returns: the price of a cached asset is stored
WatcherPriceStored(w) ==
    /\ wpc[w] = "broadcast"
    /\ ~wcancel[w]
    /\ balances_cache' =
           UpdatePrice(balances_cache, wtick[w], TickerPrice(wtick[w]))
    /\ pre_rec' = PreOf(balances_cache, wtick[w])
    /\ wpc' = [wpc EXCEPT ![w] = "watch_tickers"]
    /\ wtick' = [wtick EXCEPT ![w] = ""]
    /\ last' = [op |-> "update_price", key |-> wtick[w]]
    /\ emitted' = {}
    /\ UNCHANGED <<cfg_vars, env_vars, app_vars, loops, orders_cache, fill_tasks, recompute_vars,
                   wsymbols, wcancel, price_watcher_task, order_obs_vars,
                   count_vars, phase>>

\* the broadcast of the ticker raises an exception other than
\* ConnectionResetError: it leaves _update_asset_price before the price is
\* stored and is handled like a failure of watch_tickers
WatcherBroadcastFailed(w) ==
    /\ wpc[w] = "broadcast"
    /\ ~wcancel[w]
    /\ wpc' = [wpc EXCEPT ![w] = "backoff"]
    /\ wtick' = [wtick EXCEPT ![w] = ""]
    /\ last' = [op |-> "broadcast_failed", key |-> wtick[w]]
    /\ emitted' = {}
    /\ UNCHANGED <<cfg_vars, env_vars, app_vars, loops, balances_cache, orders_cache, fill_tasks,
                   recompute_vars, wsymbols, wcancel, price_watcher_task,
                   order_obs_vars, pre_rec, count_vars, phase>>

\* watch_tickers raises: the loop logs and sleeps before it retries
WatcherError(w) ==
    /\ wpc[w] = "watch_tickers"
    /\ ~wcancel[w]
    /\ wpc' = [wpc EXCEPT ![w] = "backoff"]
    /\ last' = [op |-> "watcher_error", key |-> ""]
    /\ emitted' = {}
    /\ UNCHANGED <<cfg_vars, env_vars, app_vars, loops, balances_cache, orders_cache, fill_tasks,
                   recompute_vars, wsymbols, wcancel, wtick,
                   price_watcher_task, order_obs_vars, pre_rec, count_vars,
                   phase>>

\* asyncio.sleep(5) returns
WatcherRetry(w) ==
    /\ wpc[w] = "backoff"
    /\ ~wcancel[w]
    /\ wpc' = [wpc EXCEPT ![w] = "watch_tickers"]
    /\ last' = [op |-> "watcher_retry", key |-> ""]
    /\ emitted' = {}
    /\ UNCHANGED <<cfg_vars, env_vars, app_vars, loops, balances_cache, orders_cache, fill_tasks,
                   recompute_vars, wsymbols, wcancel, wtick,
                   price_watcher_task, order_obs_vars, pre_rec, count_vars,
                   phase>>

\* faulty variant of WatcherCancelled: a cancellation that arrives in the
\* backoff delay does not end the task
WatcherCancelledAwake(w) ==
    /\ wpc[w] \notin {"done", "backoff"}
    /\ wcancel[w]
    /\ wpc' = [wpc EXCEPT ![w] = "done"]
    /\ wtick' = [wtick EXCEPT ![w] = ""]
    /\ wsymbols' = [wsymbols EXCEPT ![w] = {}]
    /\ wcancel' = [wcancel EXCEPT ![w] = FALSE]
    /\ last' = [op |-> "watcher_cancelled", key |-> ""]
    /\ emitted' = {}
    /\ UNCHANGED <<cfg_vars, env_vars, app_vars, loops, balances_cache, orders_cache, fill_tasks,
                   recompute_vars, price_watcher_task, order_obs_vars, pre_rec,
                   count_vars, phase>>

\* CancelledError is thrown into the task at its await: before its first
\* step, in the loop's try (caught, break) or in the sleep (propagates)
WatcherCancelled(w) ==
    /\ wpc[w] # "done"
    /\ wcancel[w]
    /\ wpc' = [wpc EXCEPT ![w] = "done"]
    /\ wtick' = [wtick EXCEPT ![w] = ""]
    /\ wsymbols' = [wsymbols EXCEPT ![w] = {}]
    /\ wcancel' = [wcancel EXCEPT ![w] = FALSE]
    /\ last' = [op |-> "watcher_cancelled", key |-> ""]
    /\ emitted' = {}
    /\ UNCHANGED <<cfg_vars, env_vars, app_vars, loops, balances_cache, orders_cache, fill_tasks,
                   recompute_vars, price_watcher_task, order_obs_vars, pre_rec,
                   count_vars, phase>>

----------------------------------------------------------------------------
(* The balance stream and startup *)

\* watch_balance or watch_orders raises: the loop logs and sleeps
StreamError(l) ==
    /\ phase = "running"
    /\ loops[l] = "watch"
    /\ loops' = [loops EXCEPT ![l] = "backoff"]
    /\ last' = [op |-> "stream_error", key |-> l]
    /\ emitted' = {}
    /\ UNCHANGED <<cfg_vars, env_vars, app_vars, balances_cache, orders_cache, fill_tasks,
                   recompute_vars, watcher_vars, order_obs_vars, pre_rec,
                   count_vars, phase>>

\* faulty variant of StreamRetry: the loop ends after the failure
StreamLoopEnds(l) ==
    /\ loops[l] = "backoff"
    /\ loops' = [loops EXCEPT ![l] = "ended"]
    /\ last' = [op |-> "stream_ended", key |-> l]
    /\ emitted' = {}
    /\ UNCHANGED <<cfg_vars, env_vars, app_vars, balances_cache, orders_cache, fill_tasks,
                   recompute_vars, watcher_vars, order_obs_vars, pre_rec,
                   count_vars, phase>>

\* asyncio.sleep(5) returns: the loop calls the stream again
StreamRetry(l) ==
    /\ loops[l] = "backoff"
    /\ loops' = [loops EXCEPT ![l] = "watch"]
    /\ last' = [op |-> "stream_retry", key |-> l]
    /\ emitted' = {}
    /\ UNCHANGED <<cfg_vars, env_vars, app_vars, balances_cache, orders_cache, fill_tasks,
                   recompute_vars, watcher_vars, order_obs_vars, pre_rec,
                   count_vars, phase>>

\* one entry of a watch_balance batch: skipped in testnet mode unless the
\* asset is whitelisted, else add_balance(asset, free + used, free, used)
BalanceEntry(asset, free, used) ==
    /\ phase = "running"
    /\ loops["balance"] = "watch"
    /\ n_events < MaxEvents
    /\ n_events' = n_events + 1
    /\ IF testnet /\ asset \notin whitelist
       THEN /\ last' = [op |-> "balance_skipped", key |-> asset]
            /\ emitted' = {}
            /\ UNCHANGED <<balances_cache, rpc, pre_rec>>
       ELSE /\ AddBalanceRequests(balances_cache, asset, free + used) > 0
                  => CanSpawn
            /\ balances_cache' =
                   AddBalanceCache(balances_cache, asset, free + used, free, used)
            /\ emitted' = AddBalanceMessages(balances_cache, asset, free + used)
            /\ rpc' = Spawn(rpc, AddBalanceRequests(balances_cache, asset,
                                                   free + used))
            /\ pre_rec' = BalancePre(balances_cache, asset, free, used)
            /\ last' = [op |-> IF free + used > 0 THEN "add_balance"
                               ELSE "zero_balance",
                        key |-> asset]
    /\ UNCHANGED <<cfg_vars, env_vars, app_vars, loops, orders_cache, fill_tasks, tracked_assets,
                   lock_held, r_added, read_inputs, watcher_vars,
                   order_obs_vars, phase>>

\* an entry of a watch_balance result; bad: its amount is not a number
Entry(asset, free, bad) ==
    [asset |-> asset, free |-> free, used |-> 0, bad |-> bad]

\* after add_balance the loop body raises: create_balance_update_message
\* (total positive) and handle_zero_balance(asset, is_existing) (total zero,
\* asset still cached) are not callable as written
EntryRaises(bc_after, e) ==
    e.free + e.used > 0 \/ e.asset \in DOMAIN bc_after

\* the for loop of watch_balance_loop over the entries from the i-th on:
\* the cache, the messages and the recomputation requests it leaves, and
\* whether it was left by the conversion of a bad amount
RECURSIVE BatchFrom(_, _, _)
BatchFrom(bc, entries, i) ==
    IF i > Len(entries)
    THEN [bc |-> bc, msgs |-> {}, requests |-> 0, unparseable |-> FALSE]
    ELSE IF testnet /\ entries[i].asset \notin whitelist
    THEN BatchFrom(bc, entries, i + 1)
    ELSE IF entries[i].bad
    THEN [bc |-> bc, msgs |-> {}, requests |-> 0, unparseable |-> TRUE]
    ELSE LET e == entries[i]
             total == e.free + e.used
             applied == AddBalanceCache(bc, e.asset, total, e.free, e.used)
             rest == IF EntryRaises(applied, e)
                     THEN [bc |-> applied, msgs |-> {}, requests |-> 0,
                           unparseable |-> FALSE]
                     ELSE BatchFrom(applied, entries, i + 1)
         IN  [bc |-> rest.bc,
              msgs |-> AddBalanceMessages(bc, e.asset, total) \cup rest.msgs,
              requests |-> AddBalanceRequests(bc, e.asset, total)
                               + rest.requests,
              unparseable |-> rest.unparseable]

\* rp with n more recomputation tasks created
RECURSIVE SpawnMany(_, _)
SpawnMany(rp, n) ==
    IF n = 0 THEN rp
    ELSE SpawnMany([rp EXCEPT ![CHOOSE s \in RecomputeSlots :
                                     /\ rp[s] = "idle"
                                     /\ \A t \in RecomputeSlots :
                                            t < s => rp[t] # "idle"]
                                 = "created"], n - 1)

\* a watch_balance result with several entries, processed by one iteration
\* of watch_balance_loop; the exception that ends the iteration is logged
BalanceEvent(entries) ==
    /\ phase = "running"
    /\ loops["balance"] = "watch"
    /\ n_events < MaxEvents
    /\ n_events' = n_events + 1
    /\ Cardinality({s \in RecomputeSlots : rpc[s] = "idle"})
           >= BatchFrom(balances_cache, entries, 1).requests
    /\ balances_cache' = BatchFrom(balances_cache, entries, 1).bc
    /\ emitted' = BatchFrom(balances_cache, entries, 1).msgs
    /\ rpc' = SpawnMany(rpc, BatchFrom(balances_cache, entries, 1).requests)
    /\ last' = [op |-> "balance_event",
                key |-> IF BatchFrom(balances_cache, entries, 1).unparseable
                        THEN "unparseable" ELSE "processed"]
    /\ UNCHANGED <<cfg_vars, env_vars, app_vars, loops, orders_cache, fill_tasks, tracked_assets,
                   lock_held, r_added, read_inputs, watcher_vars,
                   order_obs_vars, pre_rec, phase>>

\* a balance record of the REST snapshot, with the cost basis computed for it
SnapshotBalance(asset, total, avg_buy_price, realised_pnl) ==
    [free |-> total, locked |-> 0, total_amount |-> total,
     price |-> IF asset = quote_currency THEN 1 ELSE 0,
     avg_buy_price |-> avg_buy_price, realised_pnl |-> realised_pnl]

\* process_initial_balances, then add_follow_asset unless testnet
InitialBalances(snapshot) ==
    LET kept == {a \in DOMAIN snapshot :
                    ~testnet \/ a \in whitelist \/ a = quote_currency}
        kept_recs == [a \in kept |-> snapshot[a]]
        dummies == IF testnet THEN {} ELSE follows \ kept
    IN  [a \in kept \cup dummies |->
            IF a \in kept THEN kept_recs[a] ELSE DummyBalance]

\* get_initial_data: the REST snapshot is loaded and the initial
\* recomputation (is_initial = True) runs to its end
LoadInitialData(snapshot, open_orders, fetched) ==
    /\ orders_cache' = InitializedOrders(open_orders)
    /\ fetched \subseteq AssetsToFetch(NewTrackedSet(InitialBalances(snapshot),
                                          InitializedOrders(open_orders)))
    /\ balances_cache' = BackfilledPrices(InitialBalances(snapshot), fetched)
    /\ ~SkipsRestart(TRUE, NewTrackedSet(InitialBalances(snapshot),
                                         InitializedOrders(open_orders)),
                     tracked_assets)
    /\ tracked_assets' = NewTrackedSet(InitialBalances(snapshot),
                                       InitializedOrders(open_orders))
    /\ read_inputs' = ReadOf(InitialBalances(snapshot),
                             InitializedOrders(open_orders))
    /\ CreateWatcher
    /\ last' = [op |-> "get_initial_data", key |-> "",
                open_orders |-> {[id |-> o.id, filled |-> o.filled] :
                                    o \in open_orders}]
    /\ emitted' = {Msg("price_update", a) : a \in fetched}
    /\ loaded_filled' = [id \in OrderIds |->
                      OldFilled(InitializedOrders(open_orders), id)]
    /\ max_seen' = loaded_filled'
    /\ orders_keys' = InitializedKeys(open_orders)
    /\ UNCHANGED <<cfg_vars, env_vars, app_vars, loops, fill_tasks, lock_held,
                   rpc, r_added, upd, handed, last_status, pre_rec, count_vars>>

\* on_startup for the only account with credentials: get_initial_data
\* returns, the account is registered and its balance and order loops are
\* created; no stream or task of the account exists before
GetInitialData(snapshot, open_orders, fetched) ==
    /\ phase = "constructed"
    /\ phase' = "running"
    /\ LoadInitialData(snapshot, open_orders, fetched)

\* get_initial_data of the account returns: the gather of on_startup still
\* waits for the other account
InitialDataLoaded(snapshot, open_orders, fetched) ==
    /\ phase = "constructed"
    /\ phase' = "loaded"
    /\ LoadInitialData(snapshot, open_orders, fetched)

\* get_initial_data of the account raises at the fetch of the balance and
\* the open orders: the exchange is closed and the exception is the result
InitialDataFailed ==
    /\ phase = "constructed"
    /\ phase' = "failed"
    /\ last' = [op |-> "get_initial_data_failed", key |-> ""]
    /\ emitted' = {}
    /\ UNCHANGED <<cfg_vars, env_vars, app_vars, loops, balances_cache,
                   orders_cache, fill_tasks, recompute_vars, watcher_vars,
                   order_obs_vars, pre_rec, count_vars>>

\* get_initial_data of the second account returns or raises
PeerInitialData(loaded) ==
    /\ peer = "constructed"
    /\ peer' = IF loaded THEN "loaded" ELSE "failed"
    /\ last' = [op |-> "peer_initial_data", key |-> peer']
    /\ emitted' = {}
    /\ UNCHANGED <<cfg_vars, env_vars, clients, sent, reference_prices,
                   reference_time, loops, balances_cache, orders_cache,
                   fill_tasks, recompute_vars, watcher_vars, order_obs_vars,
                   pre_rec, count_vars, phase>>

\* faulty variant of Registered: an account is registered whatever its
\* get_initial_data returned
RegisteredAlways(status) ==
    IF status \in {"loaded", "failed"} THEN "running" ELSE status

\* the loop over the results of the gather: an account whose result is no
\* exception is put into app['exchanges'] and gets its balance and its
\* order loop
Registered(status) == IF status = "loaded" THEN "running" ELSE status

\* the gather of on_startup returns: every get_initial_data has ended
OnStartupRegisters ==
    /\ phase # "constructed"
    /\ peer # "constructed"
    /\ "loaded" \in {phase, peer}
    /\ phase' = Registered(phase)
    /\ peer' = Registered(peer)
    /\ last' = [op |-> "on_startup_registers", key |-> ""]
    /\ emitted' = {}
    /\ UNCHANGED <<cfg_vars, env_vars, clients, sent, reference_prices,
                   reference_time, loops, balances_cache, orders_cache,
                   fill_tasks, recompute_vars, watcher_vars, order_obs_vars,
                   pre_rec, count_vars>>

----------------------------------------------------------------------------
(* The observers: handle_websocket *)

Clients == {"c1", "c2"}

\* on_startup has returned: the server accepts connections
StartupDone ==
    /\ phase \in {"running", "failed", "skipped"}
    /\ peer \in {"running", "failed", "skipped"}

\* nothing was sent to a connecting client yet
NothingSent ==
    [reference_price_info |-> [time |-> 0, prices |-> EmptyMap],
     price_update |-> {}, portfolio_update |-> EmptyMap, orders_update |-> {}]

\* a client with a valid token connects: it is added to clients and is sent
\* the reference snapshot if there is one and, for the registered account,
\* the prices of the tracked symbols if the fetch succeeds, a
\* portfolio_update for every balance record and the cached orders
ClientConnect(c) ==
    /\ StartupDone
    /\ c \notin clients
    /\ clients' = clients \cup {c}
    /\ sent' =
          [reference_price_info |->
               IF reference_prices # EmptyMap /\ reference_time # 0
               THEN [time |-> reference_time, prices |-> reference_prices]
               ELSE NothingSent.reference_price_info,
           price_update |->
               IF phase = "running" /\ fetches.batch_ok
               THEN TrackedSymbols(tracked_assets) \ fetches.failing ELSE {},
           portfolio_update |->
               IF phase = "running"
               THEN [a \in DOMAIN balances_cache |->
                        PortfolioUpdateMessage(a, balances_cache[a])]
               ELSE EmptyMap,
           orders_update |->
               IF phase = "running" THEN DOMAIN orders_cache ELSE {}]
    /\ last' = [op |-> "client_connect", key |-> c]
    /\ emitted' = {}
    /\ UNCHANGED <<cfg_vars, env_vars, peer, reference_prices, reference_time,
                   loops, balances_cache, orders_cache, fill_tasks,
                   recompute_vars, watcher_vars, order_obs_vars, pre_rec,
                   count_vars, phase>>

\* faulty variant of CapturedPrices: the new prices are added to the
\* snapshot captured before
CapturedPricesMerged(previous, bc) ==
    [a \in (DOMAIN previous \cup DOMAIN bc) \ {quote_currency} |->
        IF a \in DOMAIN bc THEN bc[a].price ELSE previous[a]]

\* app['reference_prices'] = {} and then the price of every balance record
\* of the registered account but the quote currency
CapturedPrices(previous, bc) ==
    [a \in DOMAIN bc \ {quote_currency} |-> bc[a].price]

\* the finally block of handle_websocket: the client is discarded and, if
\* it was the last one, the reference snapshot is captured; the time is read
\* off a clock that advances with the stream events
ClientDisconnect(c) ==
    /\ c \in clients
    /\ clients' = clients \ {c}
    /\ IF clients \ {c} = {}
       THEN /\ reference_prices' =
                   IF phase = "running"
                   THEN CapturedPrices(reference_prices, balances_cache)
                   ELSE EmptyMap
            /\ reference_time' =
                   IF reference_prices' # EmptyMap THEN n_events + 1 ELSE 0
       ELSE UNCHANGED <<reference_prices, reference_time>>
    /\ last' = [op |-> "client_disconnect", key |-> c]
    /\ emitted' = {}
    /\ UNCHANGED <<cfg_vars, env_vars, peer, sent, loops, balances_cache,
                   orders_cache, fill_tasks, recompute_vars, watcher_vars,
                   order_obs_vars, pre_rec, count_vars, phase>>

Observers ==
    \/ \E c \in Clients : ClientConnect(c)
    \/ \E c \in Clients : ClientDisconnect(c)

----------------------------------------------------------------------------
(* Initial state and specifications *)

NoUpdate ==
    [id |-> "", status |-> "", filled |-> 0, cached |-> 0,
     was_cached |-> FALSE, delta |-> 0, handed |-> 0]

\* configurations: nothing followed; ETH followed; ETH followed on the
\* testnet with BTC whitelisted
PlainConfig == [follows |-> {}, testnet |-> FALSE, whitelist |-> {}]
Configs ==
    {PlainConfig,
     [follows |-> {"ETH"}, testnet |-> FALSE, whitelist |-> {}],
     [follows |-> {"ETH"}, testnet |-> TRUE, whitelist |-> {"BTC"}]}

\* an exchange whose closed orders of BTC are never asked for
NoHistory == [current_amount |-> 1, fetched |-> TRUE, trade_history |-> <<>>]

\* an exchange whose ticker fetches all succeed
AllFetched == [batch_ok |-> TRUE, failing |-> {}, order |-> <<"BTC", "ETH">>]

\* the state after the preparation loop of on_startup: the account is
\* constructed (ExchangeCoordinator.__init__) or was skipped, and so is the
\* second account; app['reference_prices'] = {}, app['reference_time'] = None
InitState(configs, phases, peers, histories, outcomes) ==
    /\ \E c \in configs :
          /\ follows = c.follows
          /\ testnet = c.testnet
          /\ whitelist = c.whitelist
    /\ phase \in phases
    /\ peer \in peers
    /\ cost_basis \in histories
    /\ fetches \in outcomes
    /\ clients = {}
    /\ sent = NothingSent
    /\ reference_prices = EmptyMap
    /\ reference_time = 0
    /\ balances_cache = EmptyMap
    /\ orders_cache = EmptyMap
    /\ fill_tasks = <<>>
    /\ tracked_assets = {}
    /\ lock_held = FALSE
    /\ price_watcher_task = NoTask
    /\ rpc = [s \in RecomputeSlots |-> "idle"]
    /\ r_added = [s \in RecomputeSlots |-> {}]
    /\ wpc = [w \in WatcherSlots |-> "done"]
    /\ wsymbols = [w \in WatcherSlots |-> {}]
    /\ wcancel = [w \in WatcherSlots |-> FALSE]
    /\ wtick = [w \in WatcherSlots |-> ""]
    /\ emitted = {}
    /\ last = [op |-> "init", key |-> ""]
    /\ upd = NoUpdate
    /\ handed = [id \in OrderIds |-> 0]
    /\ max_seen = [id \in OrderIds |-> 0]
    /\ loaded_filled = [id \in OrderIds |-> 0]
    /\ orders_keys = <<>>
    /\ last_status = [id \in OrderIds |-> ""]
    /\ pre_rec = PreOf(EmptyMap, "")
    /\ read_inputs = [valid |-> FALSE, same |-> FALSE,
                      inputs |-> InputsOf(EmptyMap, EmptyMap)]
    /\ n_events = 0
    /\ loops = [l \in StreamLoops |-> "watch"]

\* the state after ExchangeCoordinator.__init__ of the only account that
\* has credentials
InitOf(configs) ==
    InitState(configs, {"constructed"}, {"skipped"}, {NoHistory}, {AllFetched})

Init == InitOf(Configs)

\* a REST balance snapshot in which BTC and ETH are held, with the cost
\* basis calculate_average_buy_price returned for them
Held(avg_buy_price, realised_pnl) ==
    [a \in Assets |-> SnapshotBalance(a, 1, avg_buy_price, realised_pnl)]

\* REST snapshots of the open orders
OpenOrderSets == {{}, {OrderMsg("o1", 1, "open")}}

Recompute ==
    \/ \E s \in RecomputeSlots : RecomputeStart(s)
    \/ \E s \in RecomputeSlots : RecomputeWake(s)
    \/ \E s \in RecomputeSlots, fetched \in SUBSET Assets :
          RecomputeBackfilled(s, fetched)
    \/ \E s \in RecomputeSlots : RecomputeCancelled(s)

Watcher ==
    \/ \E w \in WatcherSlots : WatcherStart(w)
    \/ \E w \in WatcherSlots, a \in Assets : WatcherTick(w, a)
    \/ \E w \in WatcherSlots : WatcherPriceStored(w)
    \/ \E w \in WatcherSlots : WatcherBroadcastFailed(w)
    \/ \E w \in WatcherSlots : WatcherError(w)
    \/ \E w \in WatcherSlots : WatcherRetry(w)
    \/ \E w \in WatcherSlots : WatcherCancelled(w)

\* startup with nothing held or with BTC and ETH held at a known cost basis;
\* the backfill fetches every price or none
Startup ==
    \E snapshot \in {EmptyMap, Held(Dec(100), Dec(0))},
       open_orders \in OpenOrderSets, fetched \in SUBSET Assets :
        /\ fetched \in {{}, AssetsToFetch(NewTrackedSet(
                                InitialBalances(snapshot),
                                InitializedOrders(open_orders)))}
        /\ GetInitialData(snapshot, open_orders, fetched)

\* order updates that open and close orders without a fill
OrderMembership ==
    \E id \in OrderIds, status \in {"open", "closed"} :
        UpdateOrder(OrderMsg(id, 0, status))

BalanceStream ==
    \E asset \in AllAssets, free \in 0..1 : BalanceEntry(asset, free, 0)

\* the account with its balance stream, its order stream (orders opening
\* and closing), the recomputation tasks and the price watcher
Next ==
    \/ Startup
    \/ BalanceStream
    \/ OrderMembership
    \/ Recompute
    \/ Watcher

Spec == Init /\ [][Next]_vars

\* startup for the order stream: nothing held, or BTC and ETH held with a
\* known or an unknown cost basis; every price of the backfill is fetched
StartupOrders ==
    \E snapshot \in {EmptyMap, Held(Dec(100), Dec(0)), Held(None, None)},
       open_orders \in OpenOrderSets :
        GetInitialData(snapshot, open_orders,
            AssetsToFetch(NewTrackedSet(InitialBalances(snapshot),
                                        InitializedOrders(open_orders))))

OrderStream ==
    \E id \in OrderIds, filled \in 0..MaxFilled, status \in Statuses :
        UpdateOrder(OrderMsg(id, filled, status))

FillTasks ==
    \/ \E i \in 1..Len(fill_tasks) : StartFill(i)
    \/ \E i \in 1..Len(fill_tasks) : ResumeFill(i)

InitOrders == InitOf({PlainConfig})

\* requests of a client to cancel one order or all orders
CancelRequests ==
    \/ \E id \in OrderIds, accepted \in BOOLEAN : CancelOrder(id, accepted)
    \/ \E failed \in SUBSET OrderIds : CancelAllOrders(failed)

\* the order stream with the fill tasks it creates and the cancel requests;
\* the recomputation tasks it creates stay pending
NextOrders ==
    \/ StartupOrders
    \/ OrderStream
    \/ FillTasks
    \/ CancelRequests

SpecOrders == InitOrders /\ [][NextOrders]_vars

\* REST snapshots of the open orders: order o1 with nothing or a part of it
\* filled, an order without an id, both or none
SnapshotOrderSets ==
    {loaded \cup unnamed :
        loaded \in {{}} \cup {{OrderMsg("o1", f0, "open")} : f0 \in 0..1},
        unnamed \in {{}, {OrderMsg("", 1, "open")}}}

\* startup with nothing held or with BTC and ETH held, and a REST snapshot
\* of the open orders
StartupSnapshot ==
    \E snapshot \in {EmptyMap, Held(Dec(100), Dec(0))},
       open_orders \in SnapshotOrderSets :
        GetInitialData(snapshot, open_orders,
            AssetsToFetch(NewTrackedSet(InitialBalances(snapshot),
                                        InitializedOrders(open_orders))))

\* the orders of the REST snapshot and the order stream after it, with the
\* fill tasks it creates
NextSnapshot ==
    \/ StartupSnapshot
    \/ OrderStream
    \/ FillTasks

InitSnapshot == InitOf({PlainConfig})

SpecSnapshot == InitSnapshot /\ [][NextSnapshot]_vars

\* order updates that open and close orders, one of them for an order
\* whose symbol the exchange does not give
OrdersToCancel ==
    \/ \E id \in OrderIds, status \in {"open", "closed"} :
          UpdateOrder(OrderMsg(id, 0, status))
    \/ UpdateOrder([OrderMsg("o1", 0, "open") EXCEPT !.symbol = <<>>])

\* startup with no open order, with an open order, or with an open order
\* whose symbol the exchange does not give
StartupCancel ==
    \E open_orders \in
          OpenOrderSets
          \cup {{[OrderMsg("o1", 0, "open") EXCEPT !.symbol = <<>>]}} :
        GetInitialData(EmptyMap, open_orders,
            AssetsToFetch(NewTrackedSet(EmptyMap,
                                        InitializedOrders(open_orders))))

\* the order stream and the cancel requests of a client
NextCancel ==
    \/ StartupCancel
    \/ OrdersToCancel
    \/ CancelRequests

InitCancel == InitOf({PlainConfig})

SpecCancel == InitCancel /\ [][NextCancel]_vars

\* configurations for the fills: nothing followed, or BTC followed
ConfigsFills ==
    {PlainConfig, [follows |-> {"BTC"}, testnet |-> FALSE, whitelist |-> {}]}

InitFills == InitOf(ConfigsFills)

\* startup with BTC and ETH held: at a known cost basis, at an unknown one,
\* or at a cost basis of zero (the buys of the trade history had price 0)
StartupFills ==
    \E snapshot \in {Held(Dec(100), Dec(0)), Held(None, None),
                      Held(Dec(0), Dec(0))} :
        GetInitialData(snapshot, {},
            AssetsToFetch(NewTrackedSet(InitialBalances(snapshot), EmptyMap)))

\* order updates of open orders that carry a fill
FillStream ==
    \E id \in OrderIds, filled \in 1..MaxFilled :
        UpdateOrder(OrderMsg(id, filled, "open"))

\* balance entries with a free and a locked part
BalanceStreamFills ==
    \E asset \in Assets, free \in 0..1, used \in 0..1 :
        BalanceEntry(asset, free, used)

\* watch_balance results of two entries: with an unparseable amount after
\* or before a good one, or with two good ones
Batches ==
    {<<Entry("BTC", 0, FALSE), Entry("ETH", 0, TRUE)>>,
     <<Entry("BTC", 1, FALSE), Entry("ETH", 0, TRUE)>>,
     <<Entry("ETH", 0, TRUE), Entry("BTC", 1, FALSE)>>,
     <<Entry("BTC", 0, FALSE), Entry("ETH", 0, FALSE)>>}

BalanceBatches == \E entries \in Batches : BalanceEvent(entries)

\* order updates that are incomplete: without an id, or with a fill but
\* without a price
IncompleteOrders ==
    \/ UpdateOrder([OrderMsg("o1", 1, "open") EXCEPT !.id = ""])
    \/ UpdateOrder([OrderMsg("o1", 1, "open") EXCEPT !.price = 0])

\* the balance records under the balance stream and the fills of the
\* order stream
NextFills ==
    \/ StartupFills
    \/ BalanceStreamFills
    \/ BalanceBatches
    \/ FillStream
    \/ IncompleteOrders
    \/ FillTasks

SpecFills == InitFills /\ [][NextFills]_vars

\* startup for the stream loops: BTC and ETH held, every price fetched
StartupStreams ==
    GetInitialData(Held(Dec(100), Dec(0)), {},
        AssetsToFetch(NewTrackedSet(InitialBalances(Held(Dec(100), Dec(0))),
                                    EmptyMap)))

\* failures of the stream calls of the balance and the order loop
StreamFailures ==
    \/ \E l \in StreamLoops : StreamError(l)
    \/ \E l \in StreamLoops : StreamRetry(l)

\* an order opens without a fill
OrderOpens == UpdateOrder(OrderMsg("o1", 0, "open"))

\* BTC is sold out or bought back
BalanceOfBTC == \E free \in 0..1 : BalanceEntry("BTC", free, 0)

\* the three stream loops with the failures of their stream calls
NextStreams ==
    \/ StartupStreams
    \/ StreamFailures
    \/ BalanceOfBTC
    \/ OrderOpens
    \/ Recompute
    \/ Watcher

\* a sleeping loop wakes up, and a cancelled task ends, once the event
\* loop runs it
FairStreams ==
    /\ \A l \in StreamLoops : WF_vars(StreamRetry(l))
    /\ \A w \in WatcherSlots : WF_vars(WatcherRetry(w))
    /\ \A w \in WatcherSlots : WF_vars(WatcherCancelled(w))

SpecStreams == InitOrders /\ [][NextStreams]_vars /\ FairStreams

\* order updates of open orders that carry a fill, with or without the
\* average price of the fills
FillStreamAt ==
    \E id \in OrderIds, filled \in 1..MaxFilled, average \in {0, 250} :
        UpdateOrder([OrderMsg(id, filled, "open") EXCEPT !.average = average])

\* the fills of the order stream with the balance entries of BTC: a fill
\* task can wait for the price of a new holding while BTC gets its record
NextFillOrder ==
    \/ StartupOrders
    \/ FillStreamAt
    \/ BalanceOfBTC
    \/ FillTasks

SpecFillOrder == InitOrders /\ [][NextFillOrder]_vars

\* on_startup with two configured accounts, each with or without credentials
InitStartup ==
    InitState({PlainConfig}, {"constructed", "skipped"},
              {"constructed", "skipped"}, {NoHistory}, {AllFetched})

OnStartup ==
    \/ InitialDataLoaded(Held(Dec(100), Dec(0)), {}, Assets)
    \/ InitialDataFailed
    \/ \E loaded \in BOOLEAN : PeerInitialData(loaded)
    \/ OnStartupRegisters

\* the price watcher without failures and restarts
PriceTicks ==
    \/ \E w \in WatcherSlots : WatcherStart(w)
    \/ \E w \in WatcherSlots, a \in Assets : WatcherTick(w, a)
    \/ \E w \in WatcherSlots : WatcherPriceStored(w)

\* startup of two accounts, and the streams and the price watcher of the
\* first one
NextStartup ==
    \/ OnStartup
    \/ BalanceOfBTC
    \/ OrderOpens
    \/ PriceTicks

SpecStartup == InitStartup /\ [][NextStartup]_vars

\* the outcomes of the ticker fetches of an exchange: fetch_tickers returns
\* or raises, fetch_ticker raises for the failing assets, and the assets to
\* fetch are listed in either order
FetchOutcomes ==
    [batch_ok : BOOLEAN, failing : SUBSET Assets,
     order : {<<"BTC", "ETH">>, <<"ETH", "BTC">>}]

InitBackfill ==
    InitState({PlainConfig}, {"constructed"}, {"skipped"}, {NoHistory},
              FetchOutcomes)

\* startup with nothing held or with BTC and ETH held: the prices of the
\* initial recomputation are backfilled
StartupBackfill ==
    \E snapshot \in {EmptyMap, Held(Dec(100), Dec(0))} :
        GetInitialData(snapshot, {},
            BackfillFetched(
                AssetsToFetch(NewTrackedSet(InitialBalances(snapshot),
                                            EmptyMap)),
                fetches))

\* the price backfill of a recomputation returns
RecomputeBackfill(s) ==
    RecomputeBackfilled(s, BackfillFetched(AssetsToFetch(r_added[s]), fetches))

\* the recomputation tasks with the backfill of the exchange
RecomputeWithBackfill ==
    \/ \E s \in RecomputeSlots : RecomputeStart(s)
    \/ \E s \in RecomputeSlots : RecomputeWake(s)
    \/ \E s \in RecomputeSlots : RecomputeBackfill(s)
    \/ \E s \in RecomputeSlots : RecomputeCancelled(s)

\* startup, the balance stream and the recomputations it requests, on an
\* exchange whose ticker fetches may fail
NextBackfill ==
    \/ StartupBackfill
    \/ \E asset \in Assets : BalanceEntry(asset, 1, 0)
    \/ RecomputeWithBackfill
    \/ \E w \in WatcherSlots : WatcherStart(w)
    \/ \E w \in WatcherSlots : WatcherCancelled(w)

SpecBackfill == InitBackfill /\ [][NextBackfill]_vars

\* CancelledError is thrown into a recomputation task at the await of the
\* price backfill: `except Exception` does not catch it, `async with`
\* releases the lock, tracked_assets stays as written and the watcher is
\* not restarted
RecomputeInterrupted(s) ==
    /\ rpc[s] = "backfill"
    /\ Finish(s)
    /\ last' = [op |-> "recompute_interrupted", key |-> ""]
    /\ emitted' = {}
    /\ UNCHANGED <<cfg_vars, env_vars, app_vars, loops, balances_cache,
                   orders_cache, fill_tasks, tracked_assets, read_inputs,
                   watcher_vars, order_obs_vars, pre_rec, count_vars, phase>>

\* the account of SpecBackfill whose recomputation tasks can be cancelled
NextInterrupt ==
    \/ NextBackfill
    \/ \E s \in RecomputeSlots : RecomputeInterrupted(s)

SpecInterrupt == InitBackfill /\ [][NextInterrupt]_vars

\* the account with its balance stream and its price watcher, and the
\* observers that connect and disconnect
NextObservers ==
    \/ StartupStreams
    \/ BalanceOfBTC
    \/ PriceTicks
    \/ Observers

InitObservers == InitOf({PlainConfig})

SpecObservers == InitObservers /\ [][NextObservers]_vars

\* the closed orders a trade history is made of
TradeKinds ==
    {[side |-> "buy", filled |-> 2, price |-> 100],
     [side |-> "buy", filled |-> 1, price |-> 130],
     [side |-> "buy", filled |-> 1, price |-> 0],
     [side |-> "sell", filled |-> 1, price |-> 150],
     [side |-> "sell", filled |-> 2, price |-> 120]}

\* the trades of h as fetch_closed_orders returns them: oldest first, or
\* newest first
Stamped(h, newest_first) ==
    [i \in 1..Len(h) |->
        Trade(h[i].side, h[i].filled, h[i].price,
              IF newest_first THEN Len(h) + 1 - i ELSE i)]

\* what the exchange holds for BTC: the amount held and the closed orders,
\* which can or cannot be fetched
Histories ==
    {[current_amount |-> amount, fetched |-> fetched,
      trade_history |-> Stamped(h, newest_first)] :
        amount \in 1..MaxTrades, fetched \in BOOLEAN,
        newest_first \in BOOLEAN,
        h \in UNION {[1..n -> TradeKinds] : n \in 0..MaxTrades}}

\* what the exchange holds for an asset bought after startup: one unit, and
\* no closed order, one buy, or two buys and a sell
BoughtHistories ==
    {[current_amount |-> 1, fetched |-> fetched,
      trade_history |-> Stamped(h, FALSE)] :
        fetched \in BOOLEAN,
        h \in {<<>>,
               <<[side |-> "buy", filled |-> 1, price |-> 130]>>,
               <<[side |-> "buy", filled |-> 2, price |-> 100],
                 [side |-> "sell", filled |-> 1, price |-> 150]>>}}

InitNewAsset ==
    InitState({PlainConfig}, {"constructed"}, {"skipped"}, BoughtHistories,
              {AllFetched})

\* startup of an account that holds nothing
StartupNothingHeld == GetInitialData(EmptyMap, {}, {})

\* an account that holds nothing at startup: the balance stream brings BTC,
\* and the recomputations it requests run with the price watcher
NextNewAsset ==
    \/ StartupNothingHeld
    \/ BalanceOfBTC
    \/ RecomputeWithBackfill
    \/ PriceTicks
    \/ \E w \in WatcherSlots : WatcherCancelled(w)

SpecNewAsset == InitNewAsset /\ [][NextNewAsset]_vars

\* an account that holds nothing at startup: the balance stream brings and
\* takes BTC, and the recomputations restart a price watcher that is in its
\* stream call, in a broadcast or in its backoff delay
NextRestart ==
    \/ StartupNothingHeld
    \/ BalanceOfBTC
    \/ RecomputeWithBackfill
    \/ Watcher

\* the event loop runs every task that is ready: a created recomputation
\* task, a waiter of the free lock, a recomputation whose REST calls or
\* whose awaited watcher task returned, and a cancelled watcher task
FairRestart ==
    /\ \A s \in RecomputeSlots : WF_vars(RecomputeStart(s))
    /\ \A s \in RecomputeSlots : WF_vars(RecomputeWake(s))
    /\ \A s \in RecomputeSlots : WF_vars(RecomputeBackfill(s))
    /\ \A s \in RecomputeSlots : WF_vars(RecomputeCancelled(s))
    /\ \A w \in WatcherSlots : WF_vars(WatcherCancelled(w))

InitRestart == InitOf({PlainConfig})

SpecRestart == InitRestart /\ [][NextRestart]_vars /\ FairRestart

\* the account with both its streams, the fill tasks, the recomputations
\* and the price watcher
NextAccount ==
    \/ StartupStreams
    \/ BalanceStreamFills
    \/ FillStream
    \/ FillTasks
    \/ RecomputeWithBackfill
    \/ PriceTicks
    \/ \E w \in WatcherSlots : WatcherCancelled(w)

InitAccount == InitOf({PlainConfig})

SpecAccount == InitAccount /\ [][NextAccount]_vars

InitCostBasis ==
    InitState({PlainConfig}, {"constructed"}, {"skipped"}, Histories,
              {AllFetched})

\* the REST snapshot with the BTC of cost_basis: process_single_asset stores
\* what calculate_average_buy_price returns for it
CostBasisSnapshot ==
    LET result == CalculateAverageBuyPrice("BTC", cost_basis.current_amount,
                      cost_basis.fetched, cost_basis.trade_history)
    IN  [a \in {"BTC"} |->
            SnapshotBalance(a, cost_basis.current_amount,
                            result.avg_buy_price, result.realised_pnl)]

StartupCostBasis ==
    GetInitialData(CostBasisSnapshot, {},
        AssetsToFetch(NewTrackedSet(InitialBalances(CostBasisSnapshot),
                                    EmptyMap)))

\* startup from a trade history, and the observers that are sent the result
NextCostBasis ==
    \/ StartupCostBasis
    \/ Observers

SpecCostBasis == InitCostBasis /\ [][NextCostBasis]_vars

----------------------------------------------------------------------------
(* Properties of the order stream, checked under SpecOrders *)

\* the statuses after which the exchange sends no further change of an order
TerminalStatuses == {"closed", "canceled", "rejected", "expired"}

\* the last step applied update_order to an order with an id
OrderUpdateApplied == last.op = "update_order" /\ last.key # ""

\* C1: for every order id, whatever sequence of updates update_order was given
\* (duplicates, a terminal update replayed after the order was removed, updates
\* out of order), the fill amounts handed to the fill handler sum to the
\* highest cumulative filled amount observed for the order, less what the
\* order snapshot had already reported as filled.
C1_FillsSumToHighestFilled ==
    \A id \in OrderIds : handed[id] = max_seen[id] - loaded_filled[id]

\* C2: when update_order is applied twice in succession to the same order id
\* with the same cumulative filled amount, whatever the status of either
\* update, the second application has delta 0 and creates no fill task.
C2_RepeatedUpdateHandsNothing ==
    [][(/\ OrderUpdateApplied
        /\ OrderUpdateApplied'
        /\ n_events' = n_events + 1
        /\ upd'.id = upd.id
        /\ upd'.filled = upd.filled)
       => (upd'.delta = 0 /\ upd'.handed = 0 /\ fill_tasks' = fill_tasks)]_vars

\* C4: no order whose last applied status is terminal (closed, canceled,
\* rejected or expired) is in the order cache.
C4_TerminalOrderNotCached ==
    \A id \in OrderIds :
        last_status[id] \in TerminalStatuses => id \notin DOMAIN orders_cache

\* C5: when update_order is given a terminal update whose cumulative filled
\* amount exceeds the cached one, the delta is the difference to the record
\* that was cached before the update, and a fill task for exactly that amount
\* has been created although the order leaves the cache.
C5_TerminalFillStillHanded ==
    (OrderUpdateApplied /\ upd.status \in TerminalStatuses
        /\ upd.filled > upd.cached)
    => /\ upd.delta = upd.filled - upd.cached
       /\ upd.handed = upd.delta
       /\ fill_tasks # <<>>
       /\ fill_tasks[Len(fill_tasks)].id = upd.id
       /\ fill_tasks[Len(fill_tasks)].trade_amount = upd.filled - upd.cached
       /\ fill_tasks[Len(fill_tasks)].pc = "created"
       /\ (RemovesOrder(upd.status) => upd.id \notin DOMAIN orders_cache)

\* C5 witness: a partially filled cached order received its closing update
\* with a further fill
C5_Witness ==
    /\ OrderUpdateApplied
    /\ upd.status = "closed"
    /\ upd.was_cached
    /\ upd.cached > 0
    /\ upd.filled > upd.cached
    /\ upd.id \notin DOMAIN orders_cache

\* C25: an applied order update creates one task for _handle_filled_order
\* if its filled amount exceeds the cached one (0 for an unknown order), with
\* the difference as amount, and none otherwise; no other step creates one.
\* A task that handles its fill runs once and makes the call of
\* update_average_price_on_buy for a buy, of update_realized_pnl_on_sell for
\* a sell, with that amount.
C25_FillHandlerOncePerDelta ==
    [][/\ (OrderUpdateApplied' /\ n_events' = n_events + 1)
          => /\ upd'.delta = upd'.filled - upd'.cached
             /\ IF upd'.delta > 0
                THEN fill_tasks' = Append(fill_tasks,
                        [FillTask(OrderMsg(upd'.id, upd'.filled, upd'.status),
                                  upd'.delta) EXCEPT !.pc = "created"])
                ELSE fill_tasks' = fill_tasks
       /\ Len(fill_tasks') > Len(fill_tasks)
          => (OrderUpdateApplied' /\ n_events' = n_events + 1)
       /\ last'.op = "handle_filled_order"
          => /\ Len(fill_tasks') = Len(fill_tasks) - 1
             /\ pre_rec'.trade_amount > 0
             /\ balances_cache' =
                   IF pre_rec'.side = "buy"
                   THEN UpdateAveragePriceOnBuy(balances_cache, pre_rec'.asset,
                            pre_rec'.trade_amount, pre_rec'.trade_price)
                   ELSE UpdateRealizedPnlOnSell(balances_cache, pre_rec'.asset,
                            pre_rec'.trade_amount, pre_rec'.trade_price)]_vars

\* C25 witness: an update of a partially filled cached order reported a
\* further fill and a task was created for the difference
C25_Witness ==
    /\ OrderUpdateApplied
    /\ upd.was_cached
    /\ upd.cached > 0
    /\ upd.filled > upd.cached
    /\ fill_tasks # <<>>
    /\ fill_tasks[Len(fill_tasks)].trade_amount = upd.filled - upd.cached

----------------------------------------------------------------------------
(* Properties of the order of the fills, checked under SpecFillOrder *)

\* C26: a fill changes avg_buy_price or realised_pnl of its asset only when
\* no fill of that asset that the order stream delivered before it is still
\* to be handled: the effects on a record are applied in delivery order,
\* although a fill task may wait for a price before it applies its fill.
C26_FillsApplyInDeliveryOrder ==
    [][(last'.op = "handle_filled_order" /\ balances_cache' # balances_cache)
       => \E i \in 1..Len(fill_tasks) :
             /\ fill_tasks' = RemoveAt(fill_tasks, i)
             /\ BaseOf(fill_tasks[i].symbol) = pre_rec'.asset
             /\ fill_tasks[i].trade_amount = pre_rec'.trade_amount
             /\ \A j \in 1..(i - 1) :
                   BaseOf(fill_tasks[j].symbol) # pre_rec'.asset]_vars

\* C26 witness: the second of two fills of an order was applied to the
\* record that the first one had changed
C26_Witness ==
    /\ last.op = "handle_filled_order"
    /\ handed[last.key] = MaxFilled
    /\ upd.id = last.key
    /\ upd.cached > 0
    /\ fill_tasks = <<>>
    /\ pre_rec.present
    /\ ~IsNone(pre_rec.rec.realised_pnl)
    /\ FPos(pre_rec.rec.realised_pnl)
    /\ balances_cache[pre_rec.asset] # pre_rec.rec

\* C26 witness of the waiting case: a fill task that waited for the price of
\* a new holding resumes after the asset got its record
C26_WaitingWitness ==
    /\ last.op = "handle_filled_order"
    /\ pre_rec.side = "buy"
    /\ pre_rec.present
    /\ Msg("price_update", pre_rec.asset) \in emitted

----------------------------------------------------------------------------
(* Properties of the balance cache, the tracked set and the price watcher, *)
(* checked under Spec                                                      *)

\* C3: after a zero balance was handled for a cached asset: if the asset is
\* followed its record is still cached, with free, locked and total 0 and
\* with price, avg_buy_price and realised_pnl as before; if it is not
\* followed the record is gone and remove_holding was emitted for it.
C3_ZeroBalanceEviction ==
    (last.op = "zero_balance" /\ pre_rec.present)
    => IF last.key \in follows
       THEN /\ last.key \in DOMAIN balances_cache
            /\ balances_cache[last.key] =
                   [pre_rec.rec EXCEPT !.free = 0, !.locked = 0,
                                       !.total_amount = 0]
       ELSE /\ last.key \notin DOMAIN balances_cache
            /\ Msg("remove_holding", last.key) \in emitted

\* C3 witness: a followed asset that was held with a known cost basis went
\* to zero
C3_Witness ==
    /\ last.op = "zero_balance"
    /\ pre_rec.present
    /\ last.key \in follows
    /\ pre_rec.rec.total_amount > 0
    /\ ~IsNone(pre_rec.rec.avg_buy_price)

\* the recomputation tasks inside the critical section
InCriticalSection == {s \in RecomputeSlots : rpc[s] \in {"backfill", "await_cancel"}}

\* C6: at most one recomputation is inside the critical section of
\* update_tracked_assets_and_restart_watcher, and the lock is held exactly
\* while one is; the others wait their turn.
C6_OneRecomputationAtATime ==
    /\ Cardinality(InCriticalSection) <= 1
    /\ lock_held <=> InCriticalSection # {}

\* C6 witness: one recomputation is inside the critical section while
\* another, requested meanwhile, waits for the lock
C6_Witness ==
    \E s, t \in RecomputeSlots :
        s # t /\ s \in InCriticalSection /\ rpc[t] = "waiting"

\* the watcher tasks that are not done
LiveWatchers == {w \in WatcherSlots : wpc[w] # "done"}

\* C7: at most one price watcher task is live at any time.
C7_OneLiveWatcher == Cardinality(LiveWatchers) <= 1

\* C7 witness: a recomputation cancelled the old watcher, awaited it and
\* created the new one
C7_Witness ==
    /\ last.op = "recompute_resume"
    /\ last.key = "restarted"
    /\ LiveWatchers = {price_watcher_task}
    /\ wpc[price_watcher_task] = "scheduled"

\* C8: a recomputation that reads the same balance keys, held assets and
\* order assets as the computation before it takes the fast path: the tracked
\* set, the watcher task, the caches and the lock are as before, nothing is
\* backfilled and nothing is emitted.
C8_RecomputeIdempotent ==
    [][(/\ last'.op = "recompute"
        /\ read_inputs.valid
        /\ read_inputs.inputs = InputsOf(balances_cache, orders_cache))
       => /\ last'.key = "unchanged"
          /\ tracked_assets' = tracked_assets
          /\ UNCHANGED watcher_vars
          /\ balances_cache' = balances_cache
          /\ orders_cache' = orders_cache
          /\ lock_held' = lock_held
          /\ InCriticalSection' = {}
          /\ emitted' = {}]_vars

\* C8 witness: a recomputation ran although the caches were as the previous
\* one had read them
C8_Witness ==
    /\ last.op = "recompute"
    /\ last.key = "unchanged"
    /\ read_inputs.same
    /\ n_events > 0

\* the tracked set the specification prescribes for the given inputs
TrackedFrom(inputs) ==
    LET all == inputs.held \cup inputs.orders \cup follows \cup {quote_currency}
    IN  IF testnet THEN all \cap (whitelist \cup {quote_currency}) ELSE all

\* the last step completed a recomputation
RecomputeCompleted ==
    /\ last.op \in {"recompute", "recompute_resume"}
    /\ last.key \in {"unchanged", "finished", "restarted"}

\* C9 (as claimed): after every completed recomputation the tracked set is
\* the union of the held assets, the order assets, the followed assets and
\* the quote currency of the caches as they are then (on the testnet, cut to
\* the whitelist and the quote currency).
C9_TrackedIsUnionOfCaches ==
    RecomputeCompleted
    => tracked_assets = TrackedFrom(InputsOf(balances_cache, orders_cache))

\* C9 (amended): after every completed recomputation the tracked set is that
\* union over the caches as the recomputation read them when it took the lock.
C9_TrackedIsUnionAsRead ==
    (RecomputeCompleted \/ last.op = "get_initial_data")
    => read_inputs.valid /\ tracked_assets = TrackedFrom(read_inputs.inputs)

\* C9 witness: a recomputation completed after a cache had changed under it
C9_Witness ==
    /\ RecomputeCompleted
    /\ last.key \in {"finished", "restarted"}
    /\ read_inputs.inputs # InputsOf(balances_cache, orders_cache)
    /\ tracked_assets # TrackedFrom(InputsOf(balances_cache, orders_cache))

\* C10: when a recomputation that changed the tracked set has returned, the
\* new watcher task has started running.
C10_ReturnsAfterWatcherStarted ==
    (RecomputeCompleted /\ last.key \in {"finished", "restarted"})
    => wpc[price_watcher_task] # "scheduled"

\* C15: the cumulative filled amount cached for an order never decreases
\* from one state to the next while the order stays in the cache, also when
\* the stream delivers an older update after a newer one.
C15_CachedFilledNeverDecreases ==
    [][\A id \in DOMAIN orders_cache \cap DOMAIN orders_cache' :
          orders_cache'[id].filled >= orders_cache[id].filled]_vars

\* C17: cancel_order and cancel_all_orders leave the order cache as it is,
\* whether the exchange accepts or rejects the request; an order leaves the
\* cache only in a step of update_order that applies a removing status to it.
C17_CancelLeavesOrderCache ==
    [][/\ (n_events' = n_events + 1
           /\ last'.op \in {"cancel_order", "cancel_all_orders"})
          => orders_cache' = orders_cache
       /\ \A id \in DOMAIN orders_cache \ DOMAIN orders_cache' :
             /\ last'.op = "update_order"
             /\ upd'.id = id
             /\ RemovesOrder(upd'.status)]_vars

\* C17 witness: the exchange accepted the cancel request for a cached order
\* and the order is still cached
C17_Witness ==
    /\ last.op = "cancel_order"
    /\ last.key \in DOMAIN orders_cache
    /\ Msg("log_cancel_failed", last.key) \notin emitted

----------------------------------------------------------------------------
(* Properties of the balance records under fills, checked under SpecFills *)

\* the last step applied a fill to the balance cache (the call of
\* update_average_price_on_buy or update_realized_pnl_on_sell was made)
FillApplied(side) ==
    last.op = "handle_filled_order" /\ pre_rec.side = side

\* C11: a record whose avg_buy_price is null keeps it null in every step, and
\* a buy fill or a sell fill applied to such a record leaves the whole balance
\* cache, realised_pnl included, as it was.
C11_NullAverageStaysNull ==
    [][/\ \A a \in DOMAIN balances_cache \cap DOMAIN balances_cache' :
            IsNone(balances_cache[a].avg_buy_price)
                => IsNone(balances_cache'[a].avg_buy_price)
       /\ (/\ last'.op = "handle_filled_order"
           /\ pre_rec'.present
           /\ IsNone(pre_rec'.rec.avg_buy_price))
          => balances_cache' = balances_cache]_vars

\* C11 witness: a buy fill was applied to a held asset of unknown cost basis
C11_Witness ==
    /\ FillApplied("buy")
    /\ pre_rec.present
    /\ pre_rec.rec.total_amount > 0
    /\ IsNone(pre_rec.rec.avg_buy_price)
    /\ pre_rec.trade_amount > 0

\* the weighted average of the holding before the fill and the fill
WeightedAverage(old_total, old_avg, filled, fill_price) ==
    FDivInt(FAdd(FMulInt(old_avg, old_total), Dec(filled * fill_price)),
            old_total + filled)

\* C12: after update_average_price_on_buy(asset, filled, fill_price) on a
\* record with a non-null avg_buy_price, avg_buy_price is
\* (old_total*old_avg + filled*fill_price) / (old_total + filled), for every
\* old_total >= 0 and every old_avg.
C12_BuySetsWeightedAverage ==
    (FillApplied("buy") /\ pre_rec.present
        /\ ~IsNone(pre_rec.rec.avg_buy_price))
    => balances_cache[pre_rec.asset].avg_buy_price =
           WeightedAverage(pre_rec.rec.total_amount, pre_rec.rec.avg_buy_price,
                           pre_rec.trade_amount, pre_rec.trade_price)

\* C13: a sell fill applied to a record with a positive avg_buy_price adds
\* (fill_price - avg_buy_price) * filled_amount to realised_pnl (sets it to
\* that profit when it was null) and changes nothing else of the record.
C13_SellAddsProfit ==
    (FillApplied("sell") /\ pre_rec.present
        /\ FPos(pre_rec.rec.avg_buy_price))
    => LET profit == FMulInt(FSub(Dec(pre_rec.trade_price),
                                  pre_rec.rec.avg_buy_price),
                             pre_rec.trade_amount)
       IN  balances_cache[pre_rec.asset] =
               [pre_rec.rec EXCEPT !.realised_pnl =
                    IF IsNone(pre_rec.rec.realised_pnl) THEN profit
                    ELSE FAdd(pre_rec.rec.realised_pnl, profit)]

\* C13 witness: a sell fill was applied to a record that already had a
\* realised profit
C13_Witness ==
    /\ FillApplied("sell")
    /\ pre_rec.present
    /\ FPos(pre_rec.rec.avg_buy_price)
    /\ FPos(pre_rec.rec.realised_pnl)
    /\ balances_cache[pre_rec.asset].realised_pnl # pre_rec.rec.realised_pnl

\* C14: every balance record has total_amount = free + locked, after startup
\* and after every add_balance.
C14_TotalIsFreePlusLocked ==
    \A a \in DOMAIN balances_cache :
        balances_cache[a].total_amount =
            balances_cache[a].free + balances_cache[a].locked

\* C14 witness: add_balance stored an amount with a free and a locked part
C14_Witness ==
    /\ last.op = "add_balance"
    /\ balances_cache[last.key].free > 0
    /\ balances_cache[last.key].locked > 0

\* the recomputation tasks that were created and have not started
Requested == {s \in RecomputeSlots : rpc[s] = "created"}

C23_AddBalanceCases ==
    [][(n_events' = n_events + 1 /\ last'.op \in {"add_balance", "zero_balance"})
       => LET asset == last'.key
              total == pre_rec'.free + pre_rec'.used
              stored == [pre_rec'.rec EXCEPT !.free = pre_rec'.free,
                                             !.locked = pre_rec'.used,
                                             !.total_amount = total]
          IN  /\ (total > 0 /\ ~pre_rec'.present)
                 => /\ balances_cache' = Put(balances_cache, asset, stored)
                    /\ pre_rec'.rec = DummyBalance
                    /\ Cardinality(Requested') = Cardinality(Requested) + 1
              /\ (total > 0 /\ pre_rec'.present)
                 => /\ balances_cache' = Put(balances_cache, asset, stored)
                    /\ rpc' = rpc
              /\ (total = 0 /\ ~pre_rec'.present)
                 => /\ balances_cache' = balances_cache
                    /\ rpc' = rpc
                    /\ emitted' = {}]_vars

\* C23 witness: add_balance created the record of an asset that had none,
\* with a locked part
C23_Witness ==
    /\ last.op = "add_balance"
    /\ ~pre_rec.present
    /\ pre_rec.used > 0
    /\ balances_cache[last.key].locked = pre_rec.used
    /\ Requested # {}

\* the step handles a stream event that is unparseable or incomplete: an
\* order update without an id, an order update whose fill has no side or no
\* positive price, or a balance event left at an amount that is no number
DroppedEventStep ==
    /\ n_events' = n_events + 1
    /\ \/ last'.op = "update_order" /\ last'.key = ""
       \/ /\ last'.op = "update_order"
          /\ Len(fill_tasks') > Len(fill_tasks)
          /\ ~FillIsValid(fill_tasks'[Len(fill_tasks')])
       \/ last'.op = "balance_event" /\ last'.key = "unparseable"

\* C20: a stream event that is unparseable or incomplete leaves the balance
\* cache and the order cache exactly as they were before it: no part of the
\* event or of its batch is applied.
C20_DroppedEventLeavesCaches ==
    [][DroppedEventStep
       => (balances_cache' = balances_cache /\ orders_cache' = orders_cache)]_vars

----------------------------------------------------------------------------
(* Properties of the messages sent to the observers, checked under Spec *)

\* the asset has a record with a positive total
IsHeld(asset) ==
    asset \in DOMAIN balances_cache /\ balances_cache[asset].total_amount > 0

\* C18: a ticker for a held asset produces a full balance-update message for
\* it, and a ticker for a tracked asset that is not held produces the
\* price-only message alone: a ticker never produces a balance-update message
\* for an asset without a positive balance.
C18_HeldAssetsGetBalanceUpdate ==
    last.op = "watcher_tick"
    => /\ IsHeld(last.key) => Msg("portfolio_update", last.key) \in emitted
       /\ ~IsHeld(last.key) => emitted = {Msg("price_update", last.key)}
       /\ \A m \in emitted : m.type = "portfolio_update" => IsHeld(m.asset)

\* C19: while the message of a ticker is being delivered to the observers,
\* the price it carries is already stored in the cache: the mutation does not
\* wait for a delivery that fails or never completes.
C19_MutationDoesNotWaitForDelivery ==
    \A w \in WatcherSlots :
        (wpc[w] = "broadcast" /\ wtick[w] \in DOMAIN balances_cache)
        => balances_cache[wtick[w]].price = TickerPrice(wtick[w])

----------------------------------------------------------------------------
(* Properties of the stream loops, checked under SpecStreams *)

\* C16: a stream loop that has caught an exception of its stream call sleeps
\* and then calls the stream again: the balance and the order loop always; the
\* price loop unless its task is cancelled meanwhile.  The balance and the
\* order loop never end, and the price loop ends only by cancellation.
C16_LoopsRetryAfterFailure ==
    /\ \A l \in StreamLoops : (loops[l] = "backoff") ~> (loops[l] = "watch")
    /\ \A w \in WatcherSlots :
          (wpc[w] = "backoff") ~> (wpc[w] \in {"watch_tickers", "done"})
    /\ [](\A l \in StreamLoops : loops[l] \in {"watch", "backoff"})
    /\ [][\A w \in WatcherSlots :
             (wpc[w] \in {"watch_tickers", "broadcast", "backoff"}
                 /\ wpc'[w] = "done") => wcancel[w]]_vars

\* C16 witness: a loop is in its stream call again after a failure
C16_Witness ==
    /\ last.op = "stream_retry"
    /\ loops[last.key] = "watch"

----------------------------------------------------------------------------
(* Properties of the cost basis, checked under SpecCostBasis *)

\* the start of the position in the sorted trade history of cost_basis
PositionStart ==
    StartIndex(SortedTrades(cost_basis.trade_history),
               Len(cost_basis.trade_history), cost_basis.current_amount)

\* the realized PnL of the sells from trade i on, each at the average of the
\* total_cost and the amount accumulated when it is made
RECURSIVE PnlOfSells(_, _, _, _)
PnlOfSells(trades, i, total_cost, amount) ==
    IF i > Len(trades) THEN Dec(0)
    ELSE IF trades[i].side = "buy"
    THEN PnlOfSells(trades, i + 1,
                    FAdd(total_cost, Dec(trades[i].filled * trades[i].price)),
                    amount + trades[i].filled)
    ELSE FAdd(FMulInt(FSub(Dec(trades[i].price), FDivInt(total_cost, amount)),
                      trades[i].filled),
              PnlOfSells(trades, i + 1,
                         FSub(total_cost,
                              FMulInt(FDivInt(total_cost, amount),
                                      trades[i].filled)),
                         amount - trades[i].filled))

\* every sell from trade i on is made while units are held
RECURSIVE SellsAreCovered(_, _, _)
SellsAreCovered(trades, i, amount) ==
    IF i > Len(trades) THEN TRUE
    ELSE IF trades[i].side = "buy"
    THEN SellsAreCovered(trades, i + 1, amount + trades[i].filled)
    ELSE amount > 0 /\ SellsAreCovered(trades, i + 1, amount - trades[i].filled)

\* the history [buy 2@100, buy 1@130, sell 1@150] with 2 units held
ExampleHistory ==
    /\ cost_basis.current_amount = 2
    /\ SortedTrades(cost_basis.trade_history) =
           <<Trade("buy", 2, 100, 1), Trade("buy", 1, 130, 2),
             Trade("sell", 1, 150, 3)>>

\* C21: with the trade history [buy 2@100, buy 1@130, sell 1@150] and 2 units
\* held the stored average buy price is 110 and the realized PnL is 40; with
\* any fetched history in which the start of the position is found and every
\* replayed sell is made while units are held, the realized PnL is the sum
\* over the replayed sells of (sell price - average at the time of the sale) *
\* sold quantity.
C21_RealisedPnlIsSumOverSells ==
    (phase = "running" /\ cost_basis.fetched /\ PositionStart > 0)
    => /\ ExampleHistory
          => /\ balances_cache["BTC"].avg_buy_price = Dec(110)
             /\ balances_cache["BTC"].realised_pnl = Dec(40)
       /\ SellsAreCovered(SortedTrades(cost_basis.trade_history),
                          PositionStart, 0)
          => balances_cache["BTC"].realised_pnl =
                 PnlOfSells(SortedTrades(cost_basis.trade_history),
                            PositionStart, Dec(0), 0)

\* the amount bought less the amount sold by the trades from trade i on
RECURSIVE NetFrom(_, _)
NetFrom(trades, i) ==
    IF i > Len(trades) THEN 0
    ELSE (IF trades[i].side = "buy" THEN trades[i].filled
          ELSE -trades[i].filled) + NetFrom(trades, i + 1)

\* no suffix of the sorted trade history nets to the amount held
NeverAccounted ==
    \A i \in 1..Len(cost_basis.trade_history) :
        NetFrom(SortedTrades(cost_basis.trade_history), i)
            # cost_basis.current_amount

\* the trade history cannot account for the holding: it cannot be fetched,
\* it is empty, or the backward walk never reaches the amount held
Unaccounted ==
    \/ ~cost_basis.fetched
    \/ cost_basis.trade_history = <<>>
    \/ NeverAccounted

\* C22: when the trade history cannot account for the holding, startup
\* completes with a null avg_buy_price in the balance record, and the
\* portfolio_update sent to a connecting observer reports it as null, not 0.
C22_UnknownCostBasisStaysNull ==
    (phase = "running" /\ Unaccounted)
    => /\ "BTC" \in DOMAIN balances_cache
       /\ IsNone(balances_cache["BTC"].avg_buy_price)
       /\ "BTC" \in DOMAIN sent.portfolio_update
          => sent.portfolio_update["BTC"].avg_buy_price = None

\* C22 witness: an observer was sent the BTC whose fetched, non-empty trade
\* history never nets to the amount held
C22_Witness ==
    /\ phase = "running"
    /\ cost_basis.fetched
    /\ cost_basis.trade_history # <<>>
    /\ NeverAccounted
    /\ "BTC" \in DOMAIN sent.portfolio_update
    /\ clients # {}

----------------------------------------------------------------------------
(* Properties of startup, checked under SpecStartup *)

\* the step is an event of the balance or of the order stream of the account
StreamEventStep ==
    /\ n_events' = n_events + 1
    /\ last'.op \in {"add_balance", "zero_balance", "balance_skipped",
                     "balance_event", "update_order"}

\* C27: the balance and the order stream of an account deliver events only
\* once the account is registered, and an account is registered only when its
\* get_initial_data has returned without an exception, with the snapshot in
\* the caches; an account without credentials, or whose get_initial_data
\* raised, stays unregistered and without streams for ever.
C27_StreamsStartAfterReconciliation ==
    [][/\ StreamEventStep => (phase = "running" /\ read_inputs.valid)
       /\ (phase' = "running" /\ phase # "running")
          => (phase = "loaded" /\ read_inputs.valid)
       /\ (peer' = "running" /\ peer # "running") => peer = "loaded"
       /\ phase \in {"skipped", "failed"} => phase' = phase
       /\ peer \in {"skipped", "failed"} => peer' = peer]_vars

\* C27 witness: the stream of the registered account delivers an event
\* while the other account, whose get_initial_data raised, is not registered
C27_Witness ==
    /\ phase = "running"
    /\ peer = "failed"
    /\ last.op \in {"add_balance", "zero_balance", "update_order"}
    /\ n_events > 0

----------------------------------------------------------------------------
(* Properties of the update messages, checked under SpecFills *)

\* the fields of a balance record the observers are shown
VisibleFields(rec) ==
    <<rec.free, rec.locked, rec.price, rec.avg_buy_price, rec.realised_pnl>>

\* the step changes a visible field of the record of the asset
VisibleChange(asset) ==
    /\ asset \in DOMAIN balances_cache
    /\ asset \in DOMAIN balances_cache'
    /\ VisibleFields(balances_cache'[asset]) # VisibleFields(balances_cache[asset])

\* the step sends an update message for the asset
UpdateSent(asset) ==
    \E m \in emitted' :
        m.asset = asset /\ m.type \in {"portfolio_update", "price_update"}

\* the step stores the price of a ticker whose message is already sent
TickerStored(asset) ==
    /\ \E w \in WatcherSlots : wpc[w] = "broadcast" /\ wtick[w] = asset
    /\ balances_cache' = [balances_cache EXCEPT
                              ![asset].price = balances_cache'[asset].price]

\* the step is a balance event or a fill for the asset
MutationStep(asset) ==
    /\ last'.key = asset
    /\ last'.op \in {"add_balance", "zero_balance", "handle_filled_order"}
    /\ asset \in DOMAIN balances_cache
    /\ asset \in DOMAIN balances_cache'

\* C28: every mutation that changes a visible field of a balance record
\* (free, locked, price, avg_buy_price, realised_pnl) sends an update message
\* for that asset to the observers, and a mutation that leaves every visible
\* field unchanged sends none.
C28_VisibleChangeSendsUpdate ==
    [][\A asset \in Assets :
          /\ VisibleChange(asset) => (UpdateSent(asset) \/ TickerStored(asset))
          /\ (MutationStep(asset) /\ ~VisibleChange(asset))
             => ~UpdateSent(asset)]_vars

----------------------------------------------------------------------------
(* Properties of the price backfill, checked under SpecBackfill *)

\* the assets of a backfill whose price the exchange can give
Fetchable(assets) ==
    IF fetches.batch_ok THEN assets ELSE assets \ fetches.failing

\* C29: the price backfill, at startup or for newly added tracked assets,
\* stores the price of every asset when the multi-symbol fetch succeeds, and
\* after a failed multi-symbol fetch the price of every asset whose
\* individual fetch succeeds: a failing symbol does not end the fetches of
\* the others, and the recomputation that asked for the backfill goes on to
\* restart the price watcher.
C29_BackfillFallsBackPerSymbol ==
    [][/\ last'.op = "get_initial_data"
          => /\ emitted' = {Msg("price_update", a) :
                               a \in Fetchable(TrackedSymbols(tracked_assets'))}
             /\ \A a \in Fetchable(DOMAIN balances_cache') :
                   balances_cache'[a].price = TickerPrice(a)
             /\ wpc'[price_watcher_task'] = "scheduled"
       /\ \A s \in RecomputeSlots :
             (rpc[s] = "backfill" /\ rpc'[s] # "backfill")
             => /\ emitted' = {Msg("price_update", a) :
                                  a \in Fetchable(AssetsToFetch(r_added[s]))}
                /\ \A a \in Fetchable(AssetsToFetch(r_added[s])) :
                      a \in DOMAIN balances_cache'
                      => balances_cache'[a].price = TickerPrice(a)
                /\ rpc'[s] = "await_cancel"
                   \/ wpc'[price_watcher_task'] = "scheduled"]_vars

\* C29 witness: a recomputation backfilled two assets after the
\* multi-symbol fetch had failed, the first individual fetch failed and the
\* second one gave its price
C29_Witness ==
    /\ ~fetches.batch_ok
    /\ fetches.failing = {fetches.order[1]}
    /\ last.op = "recompute_resume"
    /\ emitted = {Msg("price_update", fetches.order[2])}
    /\ n_events > 0

----------------------------------------------------------------------------
(* Properties of the reference snapshot, checked under SpecObservers *)

\* the prices of the balance records but the quote currency
PricesNow ==
    [a \in {b \in DOMAIN balances_cache : b # quote_currency} |->
        balances_cache[a].price]

\* C30: the reference snapshot changes only in a step in which the last
\* connected observer disconnects; in every such step it becomes the prices
\* of the balance records of that moment, with nothing of the snapshot
\* before, and the balance cache, the order cache and the tracked set stay
\* as they are.
C30_SnapshotOnLastDisconnectOnly ==
    [][/\ (reference_prices' # reference_prices
              \/ reference_time' # reference_time)
          => (clients # {} /\ clients' = {})
       /\ (clients # {} /\ clients' = {})
          => /\ reference_prices' = PricesNow
             /\ reference_time' = IF PricesNow = EmptyMap THEN 0
                                  ELSE n_events + 1
             /\ balances_cache' = balances_cache
             /\ orders_cache' = orders_cache
             /\ tracked_assets' = tracked_assets]_vars

\* C30 witness: the last observer has disconnected and the snapshot
\* captured lacks BTC, which the snapshot sent to that observer when it
\* connected still had
C30_Witness ==
    /\ last.op = "client_disconnect"
    /\ clients = {}
    /\ "BTC" \in DOMAIN sent.reference_price_info.prices
    /\ "BTC" \notin DOMAIN reference_prices
    /\ "ETH" \in DOMAIN reference_prices

----------------------------------------------------------------------------
(* Properties of the atomicity of the mutations, checked under SpecFills *)

\* the record a buy or a sell fill makes of the record it finds
FilledRecord(rec, task) ==
    IF task.side = "buy"
    THEN [rec EXCEPT !.avg_buy_price =
              IF FPos(rec.avg_buy_price) /\ rec.total_amount > 0
              THEN WeightedAverage(rec.total_amount, rec.avg_buy_price,
                                   task.trade_amount, task.trade_price)
              ELSE Dec(task.trade_price)]
    ELSE [rec EXCEPT !.realised_pnl =
              LET profit == FMulInt(FSub(Dec(task.trade_price),
                                         rec.avg_buy_price),
                                    task.trade_amount)
              IN  IF IsNone(rec.realised_pnl) THEN profit
                  ELSE FAdd(rec.realised_pnl, profit)]

\* C31: a mutation of a balance record writes what it computes from the
\* record as it is in the state right before the step, with no other step
\* in between: a balance event leaves price and cost basis as they were just
\* before, a fill writes the average or the profit computed from the record
\* it finds and leaves the other fields, and update_order takes the fill
\* delta against the order as cached just before.
C31_ReadAndWriteInOneStep ==
    [][/\ \A a \in Assets :
             (a \in DOMAIN balances_cache /\ a \in DOMAIN balances_cache'
                 /\ balances_cache'[a] # balances_cache[a])
             => \/ /\ last'.op \in {"add_balance", "zero_balance",
                                    "balance_event"}
                   /\ balances_cache'[a] =
                         [balances_cache[a] EXCEPT
                              !.free = balances_cache'[a].free,
                              !.locked = balances_cache'[a].locked,
                              !.total_amount = balances_cache'[a].free
                                               + balances_cache'[a].locked]
                \/ /\ last'.op = "handle_filled_order"
                   /\ \E i \in 1..Len(fill_tasks) :
                         /\ fill_tasks' = RemoveAt(fill_tasks, i)
                         /\ BaseOf(fill_tasks[i].symbol) = a
                         /\ balances_cache'[a] =
                               FilledRecord(balances_cache[a], fill_tasks[i])
       /\ (last'.op = "update_order" /\ Len(fill_tasks') > Len(fill_tasks))
          => /\ fill_tasks'[Len(fill_tasks')].trade_amount =
                   upd'.filled - OldFilled(orders_cache, upd'.id)
             /\ upd'.id \in DOMAIN orders_cache'
                => orders_cache'[upd'.id].filled = upd'.filled]_vars

\* C31 witness: a buy fill was applied to a record the balance stream had
\* changed after startup, and the average it wrote differs from the one it
\* found
C31_Witness ==
    /\ last.op = "handle_filled_order"
    /\ pre_rec.present
    /\ pre_rec.side = "buy"
    /\ pre_rec.rec.locked = 1
    /\ FPos(pre_rec.rec.avg_buy_price)
    /\ balances_cache[pre_rec.asset].avg_buy_price # pre_rec.rec.avg_buy_price

----------------------------------------------------------------------------
(* Properties of the total of a record under a fill, checked under SpecFills *)

\* C32: a buy fill of amount f applied to a record with total t makes the
\* total of the record t + f, whatever the balance stream has delivered
\* before it.
C32_BuyFillAddsToTotal ==
    [][last'.op = "handle_filled_order"
       => \A i \in 1..Len(fill_tasks) :
             (/\ fill_tasks' = RemoveAt(fill_tasks, i)
              /\ fill_tasks[i].side = "buy"
              /\ BuyApplies(balances_cache, BaseOf(fill_tasks[i].symbol)))
             => balances_cache'[BaseOf(fill_tasks[i].symbol)].total_amount =
                   balances_cache[BaseOf(fill_tasks[i].symbol)].total_amount
                   + fill_tasks[i].trade_amount]_vars

----------------------------------------------------------------------------
(* Properties of an asset the balance stream brings, checked under         *)
(* SpecNewAsset                                                            *)

\* C33: once the recomputations requested for a record that the balance
\* stream created have ended, avg_buy_price and realised_pnl of the record
\* are what calculate_average_buy_price gives for the asset from its trade
\* history, as for an asset of the startup snapshot.
C33_NewAssetGetsCostBasis ==
    (/\ "BTC" \in DOMAIN balances_cache
     /\ balances_cache["BTC"].total_amount > 0
     /\ \A s \in RecomputeSlots : rpc[s] = "idle")
    => LET result == CalculateAverageBuyPrice("BTC",
                         balances_cache["BTC"].total_amount,
                         cost_basis.fetched, cost_basis.trade_history)
       IN  /\ balances_cache["BTC"].avg_buy_price = result.avg_buy_price
           /\ balances_cache["BTC"].realised_pnl = result.realised_pnl

----------------------------------------------------------------------------
(* Properties of the cost basis of a record, checked under SpecAccount *)

\* C34: avg_buy_price and realised_pnl of a record that exists before and
\* after a step change only when the step is the fill handler applying a
\* positive fill delta of the asset: balance events, price ticks and the
\* recomputation of the tracked set with its price backfill leave both.
C34_CostBasisChangesOnlyInFillHandler ==
    [][\A a \in Assets :
          (/\ a \in DOMAIN balances_cache
           /\ a \in DOMAIN balances_cache'
           /\ \/ balances_cache'[a].avg_buy_price
                    # balances_cache[a].avg_buy_price
              \/ balances_cache'[a].realised_pnl
                    # balances_cache[a].realised_pnl)
          => /\ last'.op = "handle_filled_order"
             /\ \E i \in 1..Len(fill_tasks) :
                   /\ fill_tasks' = RemoveAt(fill_tasks, i)
                   /\ BaseOf(fill_tasks[i].symbol) = a
                   /\ fill_tasks[i].trade_amount > 0]_vars

\* C34 witness: a balance event changed a record whose average a fill had
\* set before, and the average is as the fill left it
C34_Witness ==
    /\ last.op = "add_balance"
    /\ pre_rec.present
    /\ balances_cache[pre_rec.asset] # pre_rec.rec
    /\ FPos(pre_rec.rec.avg_buy_price)
    /\ pre_rec.rec.avg_buy_price # Dec(100)
    /\ balances_cache[pre_rec.asset].avg_buy_price = pre_rec.rec.avg_buy_price

----------------------------------------------------------------------------
(* Properties of the cancel requests, checked under SpecCancel *)

\* the orders the 'Cancel Failed' logs of the step name
CancelFailedNamed == {m.asset : m \in {x \in emitted' :
                                          x.type = "log_cancel_failed"}}

\* C35: cancel_order sends a 'Cancel Failed' log for its order only, and
\* the 'Cancel Failed' logs of cancel_all_orders name exactly the orders
\* whose cancel request failed: one for every failed request, whatever
\* became of the other requests, and none for another order.
C35_CancelFailedNamesTheOrder ==
    [][/\ (n_events' = n_events + 1 /\ last'.op = "cancel_order")
          => CancelFailedNamed \subseteq {last'.key}
       /\ (n_events' = n_events + 1 /\ last'.op = "cancel_all_orders")
          => CancelFailedNamed = last'.failed]_vars

----------------------------------------------------------------------------
(* Properties of the records of the balance cache, checked under SpecFills *)

\* C36: every record of the balance cache has a positive total or is the
\* record of a followed asset: startup, balance events and fills leave no
\* record with a total of zero for an asset that is not followed.
C36_ZeroRecordsAreFollowed ==
    \A a \in DOMAIN balances_cache :
        balances_cache[a].total_amount > 0 \/ a \in follows

\* C36 witness: the record of an asset that is not followed was removed at
\* a balance of zero while the record of a followed asset is kept at zero
C36_Witness ==
    /\ last.op = "zero_balance"
    /\ pre_rec.present
    /\ last.key \notin follows
    /\ last.key \notin DOMAIN balances_cache
    /\ \E a \in follows :
          a \in DOMAIN balances_cache /\ balances_cache[a].total_amount = 0

----------------------------------------------------------------------------
(* Properties of the watcher's subscription, checked under SpecInterrupt *)

\* the watchers that are in their loop: subscribed and not done
SubscribedWatchers ==
    {w \in WatcherSlots : wpc[w] \in {"watch_tickers", "broadcast", "backoff"}}

\* C37: whenever no recomputation holds the lock, a live price watcher is
\* subscribed to exactly the symbols of tracked_assets without the quote
\* currency, also after a recomputation was interrupted between its write
\* of tracked_assets and the restart of the watcher.
C37_WatcherFollowsTrackedAssets ==
    ~lock_held =>
        \A w \in SubscribedWatchers :
            wsymbols[w] = TrackedSymbols(tracked_assets)

----------------------------------------------------------------------------
(* Properties of the tracked set at rest, checked under Spec *)

\* no recomputation task is created, waiting or in its critical section
RecomputationsCompleted == \A s \in RecomputeSlots : rpc[s] = "idle"

----------------------------------------------------------------------------
(* Properties of the termination of a recomputation, checked under         *)
(* SpecRestart                                                             *)

\* C39: a recomputation that holds the lock releases it, and a request that
\* waits for the lock completes: the cancelled watcher ends in its stream
\* call, in a broadcast and in its backoff delay alike, so the recomputation
\* that awaits it goes on.
C39_LockIsReleased ==
    /\ lock_held ~> ~lock_held
    /\ \A s \in RecomputeSlots : (rpc[s] # "idle") ~> (rpc[s] = "idle")

\* C39 witness: a recomputation holds the lock and awaits the watcher it
\* cancelled in the backoff delay, while a later request waits for the lock
C39_Witness ==
    \E s, t \in RecomputeSlots :
        /\ lock_held
        /\ rpc[s] = "await_cancel"
        /\ rpc[t] = "waiting"
        /\ wcancel[price_watcher_task]
        /\ wpc[price_watcher_task] = "backoff"

----------------------------------------------------------------------------
(* Properties of the orders of the REST snapshot, checked under            *)
(* SpecSnapshot                                                            *)

\* the fill tasks a step created
CreatedFillTasks == SubSeq(fill_tasks', Len(fill_tasks) + 1, Len(fill_tasks'))

\* C40: initialize_orders caches every order of the REST snapshot that has
\* an id under that id with the filled amount of the snapshot, and skips
\* an order without an id; the first update of the order stream for a
\* loaded order whose filled amount is not below the loaded one has the
\* difference as its delta, and hands that difference to the fill handler
\* (nothing when it is zero).
C40_SnapshotFilledIsNotAppliedAgain ==
    [][/\ last'.op = "get_initial_data"
          => /\ DOMAIN orders_cache' = {o.id : o \in last'.open_orders} \ {""}
             /\ \A o \in last'.open_orders :
                   o.id # "" => /\ orders_cache'[o.id].id = o.id
                                /\ orders_cache'[o.id].filled = o.filled
       /\ (last.op = "get_initial_data" /\ last'.op = "update_order")
          => \A o \in last.open_orders :
                (o.id # "" /\ last'.key = o.id /\ upd'.filled >= o.filled)
                => /\ upd'.delta = upd'.filled - o.filled
                   /\ Len(CreatedFillTasks) =
                          (IF upd'.filled > o.filled THEN 1 ELSE 0)
                   /\ \A i \in 1..Len(CreatedFillTasks) :
                         CreatedFillTasks[i].trade_amount
                             = upd'.filled - o.filled]_vars

\* C40 witness: order o1 was loaded with a filled amount of 1 next to an
\* order without an id, and the first update of the stream reported 2
C40_Witness ==
    /\ last.op = "update_order" /\ last.key = "o1"
    /\ n_events = 1
    /\ loaded_filled["o1"] = 1
    /\ upd.was_cached /\ upd.cached = 1 /\ upd.filled = 2 /\ upd.delta = 1
    /\ Len(fill_tasks) = 1 /\ fill_tasks[1].trade_amount = 1
    /\ "" \notin DOMAIN orders_cache

====
